---- MODULE Spec2Model ----
(***************************************************************************)
(* A model of kconfig-lsp: the lexer (src/src/lexer.rs), the recursive-    *)
(* descent parser (src/src/parser.rs), the workspace index                 *)
(* (src/src/analysis.rs) and the handlers of the language server           *)
(* (src/src/server.rs).                                                    *)
(*                                                                         *)
(* A source text is a string; the byte at (zero-based) offset i of text s  *)
(* is SubSeq(s, i + 1, i + 1).  Spans are half-open zero-based intervals,  *)
(* as in the code.  An Option is a sequence of length 0 (None) or 1        *)
(* (Some).                                                                 *)
(***************************************************************************)
EXTENDS Integers, Sequences, FiniteSets, TLC

(***************************************************************************)
(* Bytes and slices                                                        *)
(***************************************************************************)
ByteAt(src, i) == IF i < Len(src) THEN SubSeq(src, i + 1, i + 1) ELSE ""

\* &src[a..b]
Slice(src, a, b) == SubSeq(src, a + 1, b)

\* ast.rs: Span::new, Span::merge
SpanNew(s, e) == [start |-> s, end |-> e]
SpanMerge(a, b) ==
    [start |-> IF a.start <= b.start THEN a.start ELSE b.start,
     end |-> IF a.end >= b.end THEN a.end ELSE b.end]

\* u8::is_ascii_alphanumeric
AsciiAlphanumeric ==
    {"0", "1", "2", "3", "4", "5", "6", "7", "8", "9",
     "a", "b", "c", "d", "e", "f", "g", "h", "i", "j", "k", "l", "m",
     "n", "o", "p", "q", "r", "s", "t", "u", "v", "w", "x", "y", "z",
     "A", "B", "C", "D", "E", "F", "G", "H", "I", "J", "K", "L", "M",
     "N", "O", "P", "Q", "R", "S", "T", "U", "V", "W", "X", "Y", "Z"}

is_ident_start(b) == b \in AsciiAlphanumeric \cup {"_"}
is_ident_cont(b) == b \in AsciiAlphanumeric \cup {"_", "-"}

(***************************************************************************)
(* Lexer (src/src/lexer.rs)                                                *)
(***************************************************************************)
\* keyword(s): the token kind of a keyword spelling, "" for none
keyword(s) ==
    CASE s = "config" -> "Config"
      [] s = "menuconfig" -> "MenuConfig"
      [] s = "choice" -> "Choice"
      [] s = "endchoice" -> "EndChoice"
      [] s = "comment" -> "CommentKw"
      [] s = "menu" -> "Menu"
      [] s = "endmenu" -> "EndMenu"
      [] s = "if" -> "If"
      [] s = "endif" -> "EndIf"
      [] s = "source" -> "Source"
      [] s = "mainmenu" -> "MainMenu"
      [] s = "bool" -> "Bool"
      [] s = "tristate" -> "Tristate"
      [] s = "string" -> "StringType"
      [] s = "hex" -> "Hex"
      [] s = "int" -> "Int"
      [] s = "prompt" -> "Prompt"
      [] s = "default" -> "Default"
      [] s = "def_bool" -> "DefBool"
      [] s = "def_tristate" -> "DefTristate"
      [] s = "depends" -> "Depends"
      [] s = "on" -> "On"
      [] s = "select" -> "Select"
      [] s = "imply" -> "Imply"
      [] s = "visible" -> "Visible"
      [] s = "range" -> "Range"
      [] s = "help" -> "Help"
      [] s = "---help---" -> "Help"
      [] s = "modules" -> "Modules"
      [] s = "transitional" -> "Transitional"
      [] s = "optional" -> "Optional"
      [] OTHER -> ""

\* A token: its kind, its payload (StringLit, Ident, Macro, LineComment) and span
Tok(k, t, s, e) == [kind |-> k, text |-> t, span |-> SpanNew(s, e)]

\* a skip that also runs over newlines
RECURSIVE skip_spaces_and_newlines(_, _)
skip_spaces_and_newlines(src, pos) ==
    IF ByteAt(src, pos) \in {" ", "\t", "\n"}
    THEN skip_spaces_and_newlines(src, pos + 1) ELSE pos

\* skip_spaces
RECURSIVE skip_spaces(_, _)
skip_spaces(src, pos) ==
    IF ByteAt(src, pos) \in {" ", "\t"} THEN skip_spaces(src, pos + 1) ELSE pos

\* Faulty variant of skip_blank: the spaces are skipped, a `\` + newline is
\* not
skip_blank_spaces_only(src, pos) == skip_spaces(src, pos)

\* the loop that opens next_token: spaces, then `\` + newline, repeated
RECURSIVE skip_blank(_, _)
skip_blank(src, pos) ==
    LET p == skip_spaces(src, pos)
    IN  IF ByteAt(src, p) = "\\" /\ ByteAt(src, p + 1) = "\n"
        THEN skip_blank(src, p + 2)
        ELSE p

\* the end of a `#` comment: the offset of the next newline, or the end
RECURSIVE comment_end(_, _)
comment_end(src, pos) ==
    IF pos >= Len(src) \/ ByteAt(src, pos) = "\n" THEN pos
    ELSE comment_end(src, pos + 1)

\* lex_string: the loop from offset pos with the value collected so far;
\* yields the value and the offset after the literal
RECURSIVE lex_string_loop(_, _, _, _)
lex_string_loop(src, pos, quote, value) ==
    IF pos >= Len(src) THEN [value |-> value, pos |-> pos]
    ELSE LET b == ByteAt(src, pos)
         IN  IF b = quote THEN [value |-> value, pos |-> pos + 1]
             ELSE IF b = "\\"
             THEN IF pos + 1 < Len(src)
                  THEN lex_string_loop(src, pos + 2, quote,
                                       value \o ByteAt(src, pos + 1))
                  ELSE lex_string_loop(src, pos + 1, quote, value)
             ELSE IF b = "\n" THEN [value |-> value, pos |-> pos + 1]
             ELSE lex_string_loop(src, pos + 1, quote, value \o b)

lex_string(src, start, quote) ==
    LET r == lex_string_loop(src, start + 1, quote, "")
    IN  Tok("StringLit", r.value, start, r.pos)

\* lex_macro: the loop over the body; yields the depth and offset reached
RECURSIVE lex_macro_loop(_, _, _)
lex_macro_loop(src, pos, depth) ==
    IF depth = 0 \/ pos >= Len(src) THEN [depth |-> depth, pos |-> pos]
    ELSE LET b == ByteAt(src, pos)
         IN  lex_macro_loop(src, pos + 1,
                            IF b = "(" THEN depth + 1
                            ELSE IF b = ")" THEN depth - 1 ELSE depth)

lex_macro(src, start) ==
    LET body_start == start + 2
        r == lex_macro_loop(src, body_start, 1)
        body_end == IF r.depth = 0 THEN r.pos - 1 ELSE r.pos
    IN  Tok("Macro", Slice(src, body_start, body_end), start, r.pos)

RECURSIVE ident_end(_, _)
ident_end(src, pos) ==
    IF is_ident_cont(ByteAt(src, pos)) THEN ident_end(src, pos + 1) ELSE pos

lex_ident(src, start) ==
    LET e == ident_end(src, start + 1)
        text == Slice(src, start, e)
        kw == keyword(text)
    IN  IF kw # "" THEN Tok(kw, "", start, e) ELSE Tok("Ident", text, start, e)

\* next_token from offset pos; the lexer's cursor afterwards is the token's
\* span.end
RECURSIVE next_token(_, _)
next_token(src, pos) ==
    LET start == skip_blank(src, pos)
        ch == ByteAt(src, start)
        nx == ByteAt(src, start + 1)
    IN  IF start >= Len(src) THEN Tok("Eof", "", start, start)
        ELSE CASE ch = "\n" -> Tok("Newline", "", start, start + 1)
               [] ch = "#" ->
                    LET e == comment_end(src, start + 1)
                    IN  Tok("LineComment", Slice(src, start + 1, e), start, e)
               [] ch \in {"\"", "'"} -> lex_string(src, start, ch)
               [] ch = "$" /\ nx = "(" -> lex_macro(src, start)
               [] ch = "(" -> Tok("OpenParen", "", start, start + 1)
               [] ch = ")" -> Tok("CloseParen", "", start, start + 1)
               [] ch = "!" /\ nx = "=" -> Tok("NotEq", "", start, start + 2)
               [] ch = "!" /\ nx # "=" -> Tok("Not", "", start, start + 1)
               [] ch = "=" -> Tok("Eq", "", start, start + 1)
               [] ch = "<" /\ nx = "=" -> Tok("LessEq", "", start, start + 2)
               [] ch = "<" /\ nx # "=" -> Tok("Less", "", start, start + 1)
               [] ch = ">" /\ nx = "=" -> Tok("GreaterEq", "", start, start + 2)
               [] ch = ">" /\ nx # "=" -> Tok("Greater", "", start, start + 1)
               [] ch = "&" /\ nx = "&" -> Tok("And", "", start, start + 2)
               [] ch = "|" /\ nx = "|" -> Tok("Or", "", start, start + 2)
               [] is_ident_start(ch) -> lex_ident(src, start)
               [] OTHER -> next_token(src, start + 1)

\* a loop that breaks on Eof before pushing it
RECURSIVE tokenize_from_without_eof(_, _)
tokenize_from_without_eof(src, pos) ==
    LET tok == next_token(src, pos)
    IN  IF tok.kind = "Eof" THEN << >>
        ELSE <<tok>> \o tokenize_from_without_eof(src, tok.span.end)

\* tokenize: tokens up to and including the first Eof
RECURSIVE tokenize_from(_, _)
tokenize_from(src, pos) ==
    LET tok == next_token(src, pos)
    IN  IF tok.kind = "Eof" THEN <<tok>>
        ELSE <<tok>> \o tokenize_from(src, tok.span.end)

tokenize(src) == tokenize_from(src, 0)

(***************************************************************************)
(* Parser (src/src/parser.rs).  A parser state p mirrors struct Parser:    *)
(* source, tokens, pos (zero-based) and diagnostics, with panicked for a   *)
(* panic raised on the way.  An operator that returns a value yields       *)
(* [p |-> the state afterwards, v |-> the value].                          *)
(* Diagnostic messages are written without the code's backquotes.          *)
(***************************************************************************)
Ret(p, v) == [p |-> p, v |-> v]

\* `let v = ...; F(v)`: binds the value of a step for the steps after it
With(v, F(_)) == F(v)

peek(p) ==
    IF p.pos < Len(p.tokens) THEN p.tokens[p.pos + 1].kind ELSE "Eof"

\* the payload of the token under the cursor
peek_text(p) ==
    IF p.pos < Len(p.tokens) THEN p.tokens[p.pos + 1].text ELSE ""

current_span(p) ==
    IF p.pos < Len(p.tokens) THEN p.tokens[p.pos + 1].span
    ELSE SpanNew(Len(p.source), Len(p.source))

\* self.pos += 1
bump(p) == [p EXCEPT !.pos = @ + 1]

RECURSIVE skip_newlines(_)
skip_newlines(p) ==
    IF peek(p) \in {"Newline", "LineComment"} THEN skip_newlines(bump(p)) ELSE p

RECURSIVE skip_to_eol_loop(_)
skip_to_eol_loop(p) ==
    IF peek(p) \notin {"Newline", "Eof"} THEN skip_to_eol_loop(bump(p)) ELSE p

skip_to_eol(p) ==
    With(skip_to_eol_loop(p), LAMBDA q : IF peek(q) = "Newline" THEN bump(q) ELSE q)

diag(p, span, msg, severity) ==
    [p EXCEPT !.diagnostics =
        Append(@, [message |-> msg, span |-> span, severity |-> severity])]

expect_newline(p) ==
    CASE peek(p) = "Newline" -> bump(p)
      [] peek(p) = "LineComment" ->
            IF peek(bump(p)) = "Newline" THEN bump(bump(p)) ELSE bump(p)
      [] peek(p) = "Eof" -> p
      [] OTHER ->
            skip_to_eol(diag(p, current_span(p), "expected end of line", "Warning"))

\* Faulty variant of is_symbol_like_keyword: the type keywords are left out
is_symbol_like_keyword_no_types(tk) ==
    tk \in {"On", "Modules", "Optional", "Transitional"}

is_symbol_like_keyword(tk) ==
    tk \in {"On", "Modules", "Optional", "Transitional",
            "Bool", "Tristate", "Hex", "Int"}

keyword_to_str(tk) ==
    CASE tk = "On" -> "on"
      [] tk = "Modules" -> "modules"
      [] tk = "Optional" -> "optional"
      [] tk = "Transitional" -> "transitional"
      [] tk = "Bool" -> "bool"
      [] tk = "Tristate" -> "tristate"
      [] tk = "Hex" -> "hex"
      [] tk = "Int" -> "int"
      [] OTHER -> ""

\* expect_ident: v = <<name, span>>
expect_ident(p) ==
    CASE peek(p) = "Ident" -> Ret(bump(p), <<peek_text(p), current_span(p)>>)
      [] is_symbol_like_keyword(peek(p)) ->
            Ret(bump(p), <<keyword_to_str(peek(p)), current_span(p)>>)
      [] OTHER ->
            Ret(diag(p, current_span(p), "expected identifier", "Error"),
                <<"", current_span(p)>>)

\* expect_string: v = <<text, span>>
expect_string(p) ==
    CASE peek(p) \in {"StringLit", "Ident"} ->
            Ret(bump(p), <<peek_text(p), current_span(p)>>)
      [] peek(p) = "Macro" ->
            Ret(bump(p), <<"$(" \o peek_text(p) \o ")", current_span(p)>>)
      [] OTHER ->
            Ret(diag(p, current_span(p), "expected string", "Error"),
                <<"", current_span(p)>>)

(***************************************************************************)
(* Expressions (ast.rs: Expr; parser.rs: precedence climbing)              *)
(***************************************************************************)
ExprSymbol(name, span) == [tag |-> "Symbol", name |-> name, span |-> span]
ExprStringLit(value, span) == [tag |-> "StringLit", value |-> value, span |-> span]
ExprUnary(tag, e) == [tag |-> tag, e |-> e]
ExprBinary(tag, a, b) == [tag |-> tag, a |-> a, b |-> b]

\* Expr::span
RECURSIVE expr_span(_)
expr_span(e) ==
    CASE e.tag \in {"Symbol", "StringLit"} -> e.span
      [] e.tag \in {"Not", "Paren"} -> expr_span(e.e)
      [] OTHER -> SpanMerge(expr_span(e.a), expr_span(e.b))

\* Expr::collect_symbols: the <<name, span>> of each symbol leaf, in order
RECURSIVE collect_symbols(_)
collect_symbols(e) ==
    CASE e.tag = "Symbol" -> << <<e.name, e.span>> >>
      [] e.tag = "StringLit" -> << >>
      [] e.tag \in {"Not", "Paren"} -> collect_symbols(e.e)
      [] OTHER -> collect_symbols(e.a) \o collect_symbols(e.b)

\* the Expr constructor of a relational operator token, "" for any other token
comparison_tag(tk) ==
    CASE tk = "Eq" -> "Eq"
      [] tk = "NotEq" -> "NotEq"
      [] tk = "Less" -> "Less"
      [] tk = "LessEq" -> "LessEq"
      [] tk = "Greater" -> "Greater"
      [] tk = "GreaterEq" -> "GreaterEq"
      [] OTHER -> ""

RECURSIVE parse_primary_expr(_)
RECURSIVE parse_or_expr(_)
RECURSIVE parse_or_loop(_, _)
RECURSIVE parse_and_expr(_)
RECURSIVE parse_and_loop(_, _)
RECURSIVE parse_comparison_expr(_)

parse_expr(p) == parse_or_expr(p)

\* Faulty variant of parse_or_loop: the right operand is a whole || chain, so
\* the operator associates to the right
parse_or_loop_right(p, left) ==
    IF peek(p) = "Or"
    THEN With(parse_or_expr(bump(p)), LAMBDA r :
              Ret(r.p, ExprBinary("Or", left, r.v)))
    ELSE Ret(p, left)

parse_or_loop(p, left) ==
    IF peek(p) = "Or"
    THEN With(parse_and_expr(bump(p)), LAMBDA r :
              parse_or_loop(r.p, ExprBinary("Or", left, r.v)))
    ELSE Ret(p, left)

parse_or_expr(p) ==
    With(parse_and_expr(p), LAMBDA l : parse_or_loop(l.p, l.v))

parse_and_loop(p, left) ==
    IF peek(p) = "And"
    THEN With(parse_comparison_expr(bump(p)), LAMBDA r :
              parse_and_loop(r.p, ExprBinary("And", left, r.v)))
    ELSE Ret(p, left)

parse_and_expr(p) ==
    With(parse_comparison_expr(p), LAMBDA l : parse_and_loop(l.p, l.v))

parse_comparison_expr(p) ==
    With(parse_primary_expr(p), LAMBDA l :
        IF comparison_tag(peek(l.p)) # ""
        THEN With(parse_primary_expr(bump(l.p)), LAMBDA r :
                  Ret(r.p, ExprBinary(comparison_tag(peek(l.p)), l.v, r.v)))
        ELSE l)

parse_primary_expr(p) ==
    CASE peek(p) = "Not" ->
            With(parse_primary_expr(bump(p)), LAMBDA r :
                 Ret(r.p, ExprUnary("Not", r.v)))
      [] peek(p) = "OpenParen" ->
            With(parse_expr(bump(p)), LAMBDA r :
                 Ret(IF peek(r.p) = "CloseParen" THEN bump(r.p)
                     ELSE diag(r.p, current_span(r.p), "expected )", "Error"),
                     ExprUnary("Paren", r.v)))
      [] peek(p) = "StringLit" ->
            Ret(bump(p), ExprStringLit(peek_text(p), current_span(p)))
      [] peek(p) = "Ident" ->
            Ret(bump(p), ExprSymbol(peek_text(p), current_span(p)))
      [] peek(p) = "Macro" ->
            Ret(bump(p), ExprSymbol("$(" \o peek_text(p) \o ")", current_span(p)))
      [] is_symbol_like_keyword(peek(p)) ->
            Ret(bump(p), ExprSymbol(keyword_to_str(peek(p)), current_span(p)))
      [] OTHER ->
            Ret(diag(p, current_span(p), "expected expression", "Error"),
                ExprSymbol("", current_span(p)))

\* try_parse_if_condition: v is an Option<Expr>
try_parse_if_condition(p) ==
    IF peek(p) = "If"
    THEN With(parse_expr(bump(p)), LAMBDA r : Ret(r.p, <<r.v>>))
    ELSE Ret(p, << >>)

\* condition.as_ref().map(|e| e.span()).unwrap_or(dflt)
cond_span_or(cond, dflt) == IF cond = << >> THEN dflt ELSE expr_span(cond[1])

(***************************************************************************)
(* Help text (parser.rs: parse_help, consume_help_text), read from the raw *)
(* text                                                                    *)
(***************************************************************************)
\* A text is a string of bytes.  The texts here are ASCII but for U+00A0
\* NO-BREAK SPACE, whose UTF-8 encoding is the two bytes 0xC2 0xA0; the two
\* bytes are written "^" and "~", which like them are bytes that the lexer
\* knows no token for.
Nbsp == "^~"

\* str::is_char_boundary: "~" is the one continuation byte of the texts here
is_char_boundary(s, i) ==
    \/ i = 0
    \/ i = Len(s)
    \/ i < Len(s) /\ ByteAt(s, i) # "~"

\* char::is_whitespace, for the characters of the texts here, each as its bytes
Whitespace == {" ", "\t", "\n", "\r", Nbsp}

\* str::trim_start, str::trim_end
RECURSIVE trim_start(_)
trim_start(s) ==
    IF Len(s) > 0 /\ SubSeq(s, 1, 1) \in Whitespace
    THEN trim_start(SubSeq(s, 2, Len(s)))
    ELSE IF Len(s) > 1 /\ SubSeq(s, 1, 2) \in Whitespace
    THEN trim_start(SubSeq(s, 3, Len(s)))
    ELSE s

RECURSIVE trim_end(_)
trim_end(s) ==
    IF Len(s) > 0 /\ SubSeq(s, Len(s), Len(s)) \in Whitespace
    THEN trim_end(SubSeq(s, 1, Len(s) - 1))
    ELSE IF Len(s) > 1 /\ SubSeq(s, Len(s) - 1, Len(s)) \in Whitespace
    THEN trim_end(SubSeq(s, 1, Len(s) - 2))
    ELSE s

\* src[..off].rfind('\n'): the offset of the last newline before off, -1 for none
RECURSIVE rfind_newline(_, _)
rfind_newline(src, off) ==
    IF off = 0 THEN -1
    ELSE IF ByteAt(src, off - 1) = "\n" THEN off - 1
    ELSE rfind_newline(src, off - 1)

\* the offset of the first newline at or after off, or the end of the text
RECURSIVE line_end(_, _)
line_end(src, off) ==
    IF off >= Len(src) \/ ByteAt(src, off) = "\n" THEN off
    ELSE line_end(src, off + 1)

\* the `for raw_line in remaining.lines()` loop of consume_help_text; off is
\* the offset of the next raw line, base_indent is an Option
RECURSIVE help_lines_loop(_, _, _, _, _)
help_lines_loop(src, off, base_indent, lines, consumed) ==
    IF off >= Len(src)
    THEN [lines |-> lines, consumed |-> consumed, base_indent |-> base_indent]
    ELSE LET e == line_end(src, off)
             \* str::lines leaves out the "\n" and a "\r" before it
             raw_line == IF e > off /\ e < Len(src) /\ ByteAt(src, e - 1) = "\r"
                         THEN Slice(src, off, e - 1) ELSE Slice(src, off, e)
             trimmed == trim_start(raw_line)
             indent == Len(raw_line) - Len(trimmed)
         IN  IF trimmed = ""
             THEN help_lines_loop(src, e + 1, base_indent, Append(lines, ""),
                                  consumed + Len(raw_line) + 1)
             ELSE IF base_indent # << >> /\ indent < base_indent[1]
             THEN [lines |-> lines, consumed |-> consumed,
                   base_indent |-> base_indent]
             ELSE help_lines_loop(src, e + 1,
                                  IF base_indent = << >> THEN <<indent>>
                                  ELSE base_indent,
                                  Append(lines, raw_line),
                                  consumed + Len(raw_line) + 1)

\* the loop that moves the token cursor past the consumed help text
RECURSIVE skip_help_tokens(_, _)
skip_help_tokens(p, end_offset) ==
    IF p.pos < Len(p.tokens) /\ p.tokens[p.pos + 1].span.start < end_offset
    THEN skip_help_tokens(bump(p), end_offset)
    ELSE p

\* &l[bi..] panics when bi is inside a character of l
strip_panics(lines, bi) ==
    \E i \in 1..Len(lines) :
        Len(lines[i]) > bi /\ ~is_char_boundary(lines[i], bi)

\* lines.iter().map(strip).collect().join("\n")
RECURSIVE join_stripped(_, _)
join_stripped(lines, bi) ==
    IF lines = << >> THEN ""
    ELSE LET l == Head(lines)
             st == IF Len(l) > bi THEN SubSeq(l, bi + 1, Len(l)) ELSE trim_start(l)
         IN  IF Len(lines) = 1 THEN st
             ELSE st \o "\n" \o join_stripped(Tail(lines), bi)

consume_help_text(p) ==
    With(IF rfind_newline(p.source, current_span(p).start) = -1
         THEN current_span(p).start
         ELSE rfind_newline(p.source, current_span(p).start) + 1, LAMBDA raw_start :
    With(help_lines_loop(p.source, raw_start, << >>, << >>, 0), LAMBDA r :
    With(IF r.base_indent = << >> THEN 0 ELSE r.base_indent[1], LAMBDA bi :
        Ret([skip_help_tokens(p, raw_start + r.consumed)
                EXCEPT !.panicked = @ \/ strip_panics(r.lines, bi)],
            trim_end(join_stripped(r.lines, bi))))))

parse_help(p) ==
    With(consume_help_text(skip_to_eol(bump(p))), LAMBDA r :
        Ret(r.p, [tag |-> "Help", text |-> r.v,
                  span |-> SpanMerge(current_span(p),
                                     SpanNew(current_span(p).start,
                                             current_span(p).end + Len(r.v)))]))

(***************************************************************************)
(* Attributes (parser.rs: Attribute parsers)                               *)
(***************************************************************************)
consume_type_kind(p) ==
    Ret(bump(p),
        CASE peek(p) = "Bool" -> "Bool"
          [] peek(p) = "Tristate" -> "Tristate"
          [] peek(p) = "StringType" -> "String"
          [] peek(p) = "Hex" -> "Hex"
          [] peek(p) = "Int" -> "Int"
          [] OTHER -> "Bool")

\* parse_prompt_value: v is a PromptAttr
parse_prompt_value(p, start) ==
    With(expect_string(p), LAMBDA s :
    With(try_parse_if_condition(s.p), LAMBDA c :
        Ret(c.p, [tag |-> "Prompt", text |-> s.v[1], text_span |-> s.v[2],
                  condition |-> c.v,
                  span |-> SpanMerge(start, cond_span_or(c.v, s.v[2]))])))

\* try_parse_inline_prompt: v is an Option<PromptAttr>
try_parse_inline_prompt(p) ==
    IF peek(p) = "StringLit"
    THEN With(parse_prompt_value(p, current_span(p)), LAMBDA r : Ret(r.p, <<r.v>>))
    ELSE Ret(p, << >>)

parse_type_attr(p) ==
    With(consume_type_kind(p), LAMBDA k :
    With(try_parse_inline_prompt(k.p), LAMBDA pr :
        Ret(expect_newline(pr.p),
            [tag |-> "Type", kind |-> k.v, prompt |-> pr.v,
             span |-> SpanMerge(current_span(p),
                                IF pr.v = << >> THEN current_span(p)
                                ELSE pr.v[1].span)])))

parse_prompt_attr(p) ==
    With(parse_prompt_value(bump(p), current_span(p)), LAMBDA r :
        Ret(expect_newline(r.p), r.v))

parse_default_attr(p) ==
    With(parse_expr(bump(p)), LAMBDA v :
    With(try_parse_if_condition(v.p), LAMBDA c :
        Ret(expect_newline(c.p),
            [tag |-> "Default", value |-> v.v, condition |-> c.v,
             span |-> SpanMerge(current_span(p),
                                cond_span_or(c.v, expr_span(v.v)))])))

parse_def_type_attr(p, kind) ==
    With(parse_expr(bump(p)), LAMBDA v :
    With(try_parse_if_condition(v.p), LAMBDA c :
        Ret(expect_newline(c.p),
            [tag |-> "DefType", kind |-> kind, value |-> v.v, condition |-> c.v,
             span |-> SpanMerge(current_span(p),
                                cond_span_or(c.v, expr_span(v.v)))])))

parse_depends_on(p) ==
    With(parse_expr(IF peek(bump(p)) = "On" THEN bump(bump(p)) ELSE bump(p)),
         LAMBDA e :
        Ret(expect_newline(e.p),
            [tag |-> "DependsOn", expr |-> e.v,
             span |-> SpanMerge(current_span(p), expr_span(e.v))]))

parse_select_imply(p, is_select) ==
    With(expect_ident(bump(p)), LAMBDA s :
    With(try_parse_if_condition(s.p), LAMBDA c :
        Ret(expect_newline(c.p),
            [tag |-> IF is_select THEN "Select" ELSE "Imply",
             symbol |-> s.v[1], symbol_span |-> s.v[2], condition |-> c.v,
             span |-> SpanMerge(current_span(p), cond_span_or(c.v, s.v[2]))])))

parse_visible_if(p) ==
    With(parse_expr(IF peek(bump(p)) = "If" THEN bump(bump(p)) ELSE bump(p)),
         LAMBDA e :
        Ret(expect_newline(e.p),
            [tag |-> "VisibleIf", expr |-> e.v,
             span |-> SpanMerge(current_span(p), expr_span(e.v))]))

parse_range(p) ==
    With(parse_primary_expr(bump(p)), LAMBDA low :
    With(parse_primary_expr(low.p), LAMBDA high :
    With(try_parse_if_condition(high.p), LAMBDA c :
        Ret(expect_newline(c.p),
            [tag |-> "Range", low |-> low.v, high |-> high.v, condition |-> c.v,
             span |-> SpanMerge(current_span(p),
                                cond_span_or(c.v, expr_span(high.v)))]))))

\* the bare markers modules / transitional / optional
parse_marker(p, tag) ==
    Ret(expect_newline(bump(p)), [tag |-> tag, span |-> current_span(p)])

\* attr_span
attr_span(a) == a.span

\* Some(v) of a returned value
Some(r) == Ret(r.p, <<r.v>>)

\* one arm of the match of parse_config_attributes: v is the attribute, or
\* << >> for the `_ => break` arm
config_attribute(p) ==
    CASE peek(p) \in {"Bool", "Tristate", "StringType", "Hex", "Int"} ->
             Some(parse_type_attr(p))
      [] peek(p) = "Prompt" -> Some(parse_prompt_attr(p))
      [] peek(p) = "Default" -> Some(parse_default_attr(p))
      [] peek(p) = "DefBool" -> Some(parse_def_type_attr(p, "Bool"))
      [] peek(p) = "DefTristate" -> Some(parse_def_type_attr(p, "Tristate"))
      [] peek(p) = "Depends" -> Some(parse_depends_on(p))
      [] peek(p) = "Select" -> Some(parse_select_imply(p, TRUE))
      [] peek(p) = "Imply" -> Some(parse_select_imply(p, FALSE))
      [] peek(p) = "Visible" -> Some(parse_visible_if(p))
      [] peek(p) = "Range" -> Some(parse_range(p))
      [] peek(p) = "Help" -> Some(parse_help(p))
      [] peek(p) = "Modules" -> Some(parse_marker(p, "Modules"))
      [] peek(p) = "Transitional" -> Some(parse_marker(p, "Transitional"))
      [] peek(p) = "Optional" -> Some(parse_marker(p, "Optional"))
      [] OTHER -> Ret(p, << >>)

RECURSIVE parse_config_attributes_loop(_, _)
parse_config_attributes_loop(p, attrs) ==
    With(config_attribute(skip_newlines(p)), LAMBDA r :
        IF r.v = << >> THEN Ret(r.p, attrs)
        ELSE parse_config_attributes_loop(r.p, attrs \o r.v))

parse_config_attributes(p) == parse_config_attributes_loop(p, << >>)

\* one arm of the attribute match of parse_choice
choice_attribute(p) ==
    CASE peek(p) = "Prompt" -> Some(parse_prompt_attr(p))
      [] peek(p) = "Default" -> Some(parse_default_attr(p))
      [] peek(p) = "Depends" -> Some(parse_depends_on(p))
      [] peek(p) = "Help" -> Some(parse_help(p))
      [] peek(p) \in {"Bool", "Tristate"} -> Some(parse_type_attr(p))
      [] peek(p) = "Optional" -> Some(parse_marker(p, "Optional"))
      [] OTHER -> Ret(p, << >>)

RECURSIVE parse_choice_attributes_loop(_, _)
parse_choice_attributes_loop(p, attrs) ==
    With(choice_attribute(skip_newlines(p)), LAMBDA r :
        IF r.v = << >> THEN Ret(r.p, attrs)
        ELSE parse_choice_attributes_loop(r.p, attrs \o r.v))

\* one arm of the match of parse_comment_menu_attrs
comment_menu_attribute(p) ==
    CASE peek(p) = "Depends" -> Some(parse_depends_on(p))
      [] peek(p) = "Visible" -> Some(parse_visible_if(p))
      [] OTHER -> Ret(p, << >>)

RECURSIVE parse_comment_menu_attrs_loop(_, _)
parse_comment_menu_attrs_loop(p, attrs) ==
    With(comment_menu_attribute(skip_newlines(p)), LAMBDA r :
        IF r.v = << >> THEN Ret(r.p, attrs)
        ELSE parse_comment_menu_attrs_loop(r.p, attrs \o r.v))

parse_comment_menu_attrs(p) == parse_comment_menu_attrs_loop(p, << >>)

(***************************************************************************)
(* Entries (parser.rs: parse_entries, parse_entry and the entry parsers)   *)
(***************************************************************************)
RECURSIVE parse_entries_loop(_, _, _)
RECURSIVE parse_entry(_)

\* Faulty variant of parse_entries: no closing keyword ends the block
parse_entries_without_terminators(p, terminators) ==
    parse_entries_loop(p, {}, << >>)

\* parse_entries: terminators is the set of token kinds that end the block
parse_entries(p, terminators) == parse_entries_loop(p, terminators, << >>)

parse_entries_loop(p, terminators, entries) ==
    With(skip_newlines(p), LAMBDA q :
        IF peek(q) = "Eof" \/ peek(q) \in terminators THEN Ret(q, entries)
        ELSE With(parse_entry(q), LAMBDA r :
                  parse_entries_loop(r.p, terminators, entries \o r.v)))

\* attributes.last().map(attr_span).unwrap_or(dflt)
last_attr_span_or(attrs, dflt) ==
    IF attrs = << >> THEN dflt ELSE attr_span(attrs[Len(attrs)])

parse_config(p, is_menuconfig) ==
    With(expect_ident(bump(p)), LAMBDA n :
    With(parse_config_attributes(expect_newline(n.p)), LAMBDA a :
        Ret(a.p, [tag |-> IF is_menuconfig THEN "MenuConfig" ELSE "Config",
                  name |-> n.v[1], name_span |-> n.v[2], attributes |-> a.v,
                  span |-> SpanMerge(current_span(p),
                                     last_attr_span_or(a.v, n.v[2]))])))

\* the closing keyword of a block: consumed with its line, or an Error
\* diagnostic when it is missing
expect_terminator(p, kind, msg) ==
    IF peek(p) = kind THEN expect_newline(bump(p))
    ELSE diag(p, current_span(p), msg, "Error")

parse_choice(p) ==
    With(parse_choice_attributes_loop(expect_newline(bump(p)), << >>), LAMBDA a :
    With(parse_entries(a.p, {"EndChoice"}), LAMBDA e :
    With(skip_newlines(e.p), LAMBDA q :
        Ret(expect_terminator(q, "EndChoice", "expected endchoice"),
            [tag |-> "Choice", attributes |-> a.v, entries |-> e.v,
             span |-> SpanMerge(current_span(p), current_span(q))]))))

parse_comment(p) ==
    With(expect_string(bump(p)), LAMBDA s :
    With(parse_comment_menu_attrs(expect_newline(s.p)), LAMBDA a :
        Ret(a.p, [tag |-> "Comment", prompt |-> s.v[1], prompt_span |-> s.v[2],
                  attributes |-> a.v,
                  span |-> SpanMerge(current_span(p),
                                     last_attr_span_or(a.v, s.v[2]))])))

parse_menu(p) ==
    With(expect_string(bump(p)), LAMBDA s :
    With(parse_comment_menu_attrs(expect_newline(s.p)), LAMBDA a :
    With(parse_entries(a.p, {"EndMenu"}), LAMBDA e :
    With(skip_newlines(e.p), LAMBDA q :
        Ret(expect_terminator(q, "EndMenu", "expected endmenu"),
            [tag |-> "Menu", prompt |-> s.v[1], prompt_span |-> s.v[2],
             attributes |-> a.v, entries |-> e.v,
             span |-> SpanMerge(current_span(p), current_span(q))])))))

parse_if(p) ==
    With(parse_expr(bump(p)), LAMBDA c :
    With(parse_entries(expect_newline(c.p), {"EndIf"}), LAMBDA e :
    With(skip_newlines(e.p), LAMBDA q :
        Ret(expect_terminator(q, "EndIf", "expected endif"),
            [tag |-> "If", condition |-> c.v, entries |-> e.v,
             span |-> SpanMerge(current_span(p), current_span(q))]))))

parse_source(p) ==
    With(expect_string(bump(p)), LAMBDA s :
        Ret(expect_newline(s.p),
            [tag |-> "Source", path |-> s.v[1], path_span |-> s.v[2],
             span |-> SpanMerge(current_span(p), s.v[2])]))

parse_mainmenu(p) ==
    With(expect_string(bump(p)), LAMBDA s :
        Ret(expect_newline(s.p),
            [tag |-> "MainMenu", prompt |-> s.v[1], prompt_span |-> s.v[2],
             span |-> SpanMerge(current_span(p), s.v[2])]))

\* parse_entry: v is an Option<Entry>
parse_entry(p) ==
    CASE peek(p) = "Config" -> Some(parse_config(p, FALSE))
      [] peek(p) = "MenuConfig" -> Some(parse_config(p, TRUE))
      [] peek(p) = "Choice" -> Some(parse_choice(p))
      [] peek(p) = "CommentKw" -> Some(parse_comment(p))
      [] peek(p) = "Menu" -> Some(parse_menu(p))
      [] peek(p) = "If" -> Some(parse_if(p))
      [] peek(p) = "Source" -> Some(parse_source(p))
      [] peek(p) = "MainMenu" -> Some(parse_mainmenu(p))
      [] OTHER ->
            Ret(skip_to_eol(diag(p, current_span(p),
                                 "unexpected token at top level", "Error")),
                << >>)

\* parse(source, tokens): the ParseResult
\* parse; the token vector is a value before the parser starts, and on an
\* empty vector peek is Eof at once
parse(source, tokens) ==
    IF tokens = << >>
    THEN [file |-> [entries |-> << >>], diagnostics |-> << >>, panicked |-> FALSE]
    ELSE With(parse_entries([source |-> source, tokens |-> tokens, pos |-> 0,
                             diagnostics |-> << >>, panicked |-> FALSE], {}),
              LAMBDA r :
                [file |-> [entries |-> r.v], diagnostics |-> r.p.diagnostics,
                 panicked |-> r.p.panicked])

(***************************************************************************)
(* Position index (ast.rs: LineIndex)                                      *)
(***************************************************************************)
\* LineIndex::new: 0, then the offset after each newline byte
line_starts_from(text, i) ==
    LET newlines == {j \in i..(Len(text) - 1) : ByteAt(text, j) = "\n"}
    IN  [k \in 1..Cardinality(newlines) |->
            1 + CHOOSE j \in newlines :
                    Cardinality({m \in newlines : m < j}) = k - 1]

LineIndexNew(text) == [line_starts |-> <<0>> \o line_starts_from(text, 0)]

(***************************************************************************)
(* Symbol collection (analysis.rs: collect_entries, collect_attr_refs,     *)
(* collect_expr_refs)                                                      *)
(***************************************************************************)
is_tristate_literal(s) == s \in {"y", "n", "m"}

SymbolRef(name, kind, span, file) ==
    [name |-> name, kind |-> kind, span |-> span, file |-> file]

\* the loop of collect_expr_refs over the collected symbols
RECURSIVE refs_of_symbols(_, _, _)
refs_of_symbols(syms, kind, file) ==
    IF syms = << >> THEN << >>
    ELSE LET name == Head(syms)[1]
             rest == refs_of_symbols(Tail(syms), kind, file)
         IN  IF is_tristate_literal(name) \/ name = "" THEN rest
             ELSE <<SymbolRef(name, kind, Head(syms)[2], file)>> \o rest

collect_expr_refs(expr, kind, file) ==
    refs_of_symbols(collect_symbols(expr), kind, file)

\* a collection that tags the symbols of an `if` guard as plain dependencies
collect_cond_refs_as_depends_on(cond, kind, file) ==
    IF cond = << >> THEN << >> ELSE collect_expr_refs(cond[1], "DependsOn", file)

\* `if let Some(cond) = condition { collect_expr_refs(cond, kind, ..) }`
collect_cond_refs(cond, kind, file) ==
    IF cond = << >> THEN << >> ELSE collect_expr_refs(cond[1], kind, file)

collect_attr_refs(attr, file) ==
    CASE attr.tag = "DependsOn" -> collect_expr_refs(attr.expr, "DependsOn", file)
      [] attr.tag = "Select" ->
            <<SymbolRef(attr.symbol, "Select", attr.symbol_span, file)>>
            \o collect_cond_refs(attr.condition, "Select", file)
      [] attr.tag = "Imply" ->
            <<SymbolRef(attr.symbol, "Imply", attr.symbol_span, file)>>
            \o collect_cond_refs(attr.condition, "Imply", file)
      [] attr.tag \in {"Default", "DefType"} ->
            collect_expr_refs(attr.value, "Default", file)
            \o collect_cond_refs(attr.condition, "Default", file)
      [] attr.tag = "VisibleIf" -> collect_expr_refs(attr.expr, "VisibleIf", file)
      [] attr.tag = "Range" ->
            collect_expr_refs(attr.low, "Range", file)
            \o collect_expr_refs(attr.high, "Range", file)
            \o collect_cond_refs(attr.condition, "Range", file)
      [] attr.tag = "Type" ->
            IF attr.prompt = << >> THEN << >>
            ELSE collect_cond_refs(attr.prompt[1].condition, "DependsOn", file)
      [] attr.tag = "Prompt" -> collect_cond_refs(attr.condition, "DependsOn", file)
      [] OTHER -> << >>

\* the references of a list of attributes, in order
RECURSIVE collect_attrs_refs(_, _)
collect_attrs_refs(attrs, file) ==
    IF attrs = << >> THEN << >>
    ELSE collect_attr_refs(Head(attrs), file) \o collect_attrs_refs(Tail(attrs), file)

\* the `for attr in &c.attributes` loop of a config entry: the type, prompt
\* and help (Options) left by the attributes, the last one of each winning
RECURSIVE config_fields(_, _)
config_fields(attrs, acc) ==
    IF attrs = << >> THEN acc
    ELSE LET a == Head(attrs)
             next ==
                CASE a.tag = "Type" ->
                        [acc EXCEPT !.type_kind = <<a.kind>>,
                                    !.prompt = IF a.prompt = << >> THEN @
                                               ELSE <<a.prompt[1].text>>]
                  [] a.tag = "DefType" -> [acc EXCEPT !.type_kind = <<a.kind>>]
                  [] a.tag = "Prompt" -> [acc EXCEPT !.prompt = <<a.text>>]
                  [] a.tag = "Help" -> [acc EXCEPT !.help = <<a.text>>]
                  [] OTHER -> acc
         IN  config_fields(Tail(attrs), next)

\* the SymbolDef pushed for a config / menuconfig entry
SymbolDefOf(c, file) ==
    LET f == config_fields(c.attributes,
                           [type_kind |-> << >>, prompt |-> << >>, help |-> << >>])
    IN  [name |-> c.name,
         kind |-> IF c.tag = "MenuConfig" THEN "MenuConfig" ELSE "Config",
         name_span |-> c.name_span, type_kind |-> f.type_kind,
         prompt |-> f.prompt, help |-> f.help, file |-> file]

\* collect_entries: [defs, refs], each in the order the code pushes them
RECURSIVE collect_entries(_, _)

\* Faulty variant of collect_entry: the entries nested in an if block are
\* not collected
collect_entry_skips_if(e, file) ==
    CASE e.tag \in {"Config", "MenuConfig"} ->
            [defs |-> <<SymbolDefOf(e, file)>>,
             refs |-> collect_attrs_refs(e.attributes, file)]
      [] e.tag \in {"Choice", "Menu"} ->
            With(collect_entries(e.entries, file), LAMBDA n :
                [defs |-> n.defs,
                 refs |-> collect_attrs_refs(e.attributes, file) \o n.refs])
      [] e.tag = "Comment" ->
            [defs |-> << >>, refs |-> collect_attrs_refs(e.attributes, file)]
      [] e.tag = "If" ->
            [defs |-> << >>,
             refs |-> collect_expr_refs(e.condition, "IfCondition", file)]
      [] OTHER -> [defs |-> << >>, refs |-> << >>]

\* one arm of the match of collect_entries
collect_entry(e, file) ==
    CASE e.tag \in {"Config", "MenuConfig"} ->
            [defs |-> <<SymbolDefOf(e, file)>>,
             refs |-> collect_attrs_refs(e.attributes, file)]
      [] e.tag \in {"Choice", "Menu"} ->
            With(collect_entries(e.entries, file), LAMBDA n :
                [defs |-> n.defs,
                 refs |-> collect_attrs_refs(e.attributes, file) \o n.refs])
      [] e.tag = "Comment" ->
            [defs |-> << >>, refs |-> collect_attrs_refs(e.attributes, file)]
      [] e.tag = "If" ->
            With(collect_entries(e.entries, file), LAMBDA n :
                [defs |-> n.defs,
                 refs |-> collect_expr_refs(e.condition, "IfCondition", file)
                          \o n.refs])
      [] OTHER -> [defs |-> << >>, refs |-> << >>]

collect_entries(entries, file) ==
    IF entries = << >> THEN [defs |-> << >>, refs |-> << >>]
    ELSE With(collect_entry(Head(entries), file), LAMBDA this :
         With(collect_entries(Tail(entries), file), LAMBDA rest :
             [defs |-> this.defs \o rest.defs, refs |-> this.refs \o rest.refs]))

(***************************************************************************)
(* World index (analysis.rs: WorldIndex).  A HashMap is a function on its  *)
(* key set; a Vec is a sequence.                                           *)
(***************************************************************************)
EmptyMap == [k \in {} |-> << >>]

\* map.entry(k).or_default().push(v)
MapPush(m, k, v) ==
    [x \in DOMAIN m \cup {k} |->
        IF x = k THEN (IF k \in DOMAIN m THEN Append(m[k], v) ELSE <<v>>)
        ELSE m[x]]

\* map.insert(k, v)
MapInsert(m, k, v) == [x \in DOMAIN m \cup {k} |-> IF x = k THEN v ELSE m[x]]

\* map.remove(k)
MapRemove(m, k) == [x \in DOMAIN m \ {k} |-> m[x]]

\* vec.contains(x)
Contains(seq, x) == \E i \in 1..Len(seq) : seq[i] = x

\* WorldIndex::new
WorldIndexNew ==
    [definitions |-> EmptyMap, references |-> EmptyMap,
     all_symbols |-> << >>, files |-> EmptyMap]

\* Faulty variant of push_defs: the name is pushed to all_symbols without the
\* contains test
RECURSIVE push_defs_no_dedup(_, _)
push_defs_no_dedup(index, defs) ==
    IF defs = << >> THEN index
    ELSE push_defs_no_dedup(
             [index EXCEPT !.definitions = MapPush(@, Head(defs).name, Head(defs)),
                           !.all_symbols = Append(@, Head(defs).name)],
             Tail(defs))

\* the `for d in &defs` loop of analyze_file
RECURSIVE push_defs(_, _)
push_defs(index, defs) ==
    IF defs = << >> THEN index
    ELSE LET d == Head(defs)
         IN  push_defs([index EXCEPT
                          !.definitions = MapPush(@, d.name, d),
                          !.all_symbols = IF Contains(@, d.name) THEN @
                                          ELSE Append(@, d.name)],
                       Tail(defs))

\* the `for r in &refs` loop of analyze_file
RECURSIVE push_refs(_, _)
push_refs(index, refs) ==
    IF refs = << >> THEN index
    ELSE push_refs([index EXCEPT !.references = MapPush(@, Head(refs).name, Head(refs))],
                   Tail(refs))

\* The paths and texts given to the index calls
Paths == {"/ws/Kconfig", "/ws/drv/Kconfig"}

IndexTexts ==
    {"config A\n\tbool \"a\"\n\tdepends on B\n",
     "config B\n\tdef_bool y\n",
     "config A\nconfig B\n\tselect A\n",
     "config C\n\tdepends on\n"}

\* The Kconfig files that discover_kconfig_files finds under the workspace
\* root, each with what read_to_string gives for it: Ok(text) as <<text>>, Err
\* as << >>
Disk ==
    [path \in {"/ws/Kconfig", "/ws/drv/Kconfig", "/ws/Kconfig.old"} |->
        CASE path = "/ws/Kconfig" -> <<"config A\n\tbool\n">>
          [] path = "/ws/drv/Kconfig" -> <<"config D\n\tdepends on A\n">>
          [] OTHER -> << >>]

\* The documents the editor opens, and the texts it sends for them
OpenPaths == {"/ws/Kconfig", "/tmp/Kconfig"}

EditorTexts == {"config A\n", "config B\n\tselect A\n"}

\* The carets the editor asks completion at: the start of the text, and a
\* column past the end of the line
Carets == {<<0, 0>>, <<0, 10>>}

\* the FileAnalysis bundle and the symbols analyze_file derives from a text
FileAnalysisOf(path, source) ==
    With(parse(source, tokenize(source)), LAMBDA result :
    With(collect_entries(result.file.entries, path), LAMBDA c :
        [bundle |-> [file |-> result.file, line_index |-> LineIndexNew(source),
                     source |-> source, diagnostics |-> result.diagnostics],
         defs |-> c.defs, refs |-> c.refs, panicked |-> result.panicked]))

\* The inputs above, analysed once: FileAnalysisOf is a function of its
\* arguments alone, so the table below holds its values
KnownInputs ==
    (Paths \X IndexTexts) \cup (OpenPaths \X EditorTexts)
    \cup {<<path, Disk[path][1]>> : path \in {x \in DOMAIN Disk : Disk[x] # << >>}}

AnalysisTable == [x \in KnownInputs |-> FileAnalysisOf(x[1], x[2])]

Analysis(path, source) ==
    IF <<path, source>> \in KnownInputs THEN AnalysisTable[<<path, source>>]
    ELSE FileAnalysisOf(path, source)

analyze_file(index, path, source) ==
    With(Analysis(path, source), LAMBDA a :
        IF a.panicked THEN index
        ELSE [push_refs(push_defs(index, a.defs), a.refs)
                EXCEPT !.files = MapInsert(@, path, a.bundle)])

\* Faulty variant of the retain: the inner retain is left out, only empty
\* lists are dropped
RetainNonEmpty(m, path) ==
    [k \in {x \in DOMAIN m : m[x] # << >>} |-> m[k]]

\* Faulty variant of the retain: a name is dropped whole as soon as path owns
\* one of its entries
RetainUntouched(m, path) ==
    [k \in {x \in DOMAIN m : \A i \in 1..Len(m[x]) : m[x][i].file # path} |-> m[k]]

\* map.retain(|_, v| { v.retain(|x| x.file != path); !v.is_empty() })
RetainOthers(m, path) ==
    LET kept(k) == SelectSeq(m[k], LAMBDA x : x.file # path)
    IN  [k \in {x \in DOMAIN m : kept(x) # << >>} |-> kept(k)]

\* The orders in which iterating a HashMap's keys can yield them: any
\* arrangement of the key set (the iteration order of a HashMap is unspecified)
KeyOrders(m) ==
    LET n == Cardinality(DOMAIN m)
    IN  {o \in [1..n -> DOMAIN m] : \A i, j \in 1..n : o[i] = o[j] => i = j}

\* Faulty variant of remove_file: the references are not purged
remove_file_keeps_refs(index, path, keys) ==
    [definitions |-> RetainOthers(index.definitions, path),
     references |-> index.references,
     all_symbols |-> keys,
     files |-> MapRemove(index.files, path)]

\* remove_file; keys is the order in which definitions.keys() yields the keys
remove_file(index, path, keys) ==
    [definitions |-> RetainOthers(index.definitions, path),
     references |-> RetainOthers(index.references, path),
     all_symbols |-> keys,
     files |-> MapRemove(index.files, path)]

\* Faulty variant of reanalyze_file: the file is analyzed without being removed
reanalyze_file_no_remove(index, path, source, keys) ==
    analyze_file(index, path, source)

\* reanalyze_file; keys as for remove_file
reanalyze_file(index, path, source, keys) ==
    analyze_file(remove_file(index, path, keys), path, source)

\* get_definitions, get_references
get_definitions(index, name) ==
    IF name \in DOMAIN index.definitions THEN index.definitions[name] ELSE << >>
get_references(index, name) ==
    IF name \in DOMAIN index.references THEN index.references[name] ELSE << >>


(***************************************************************************)
(* Diagnostics (diagnostics.rs)                                            *)
(***************************************************************************)
\* LineIndex::line_col: 0-based <<line, col>>; the line is
\* line_starts.partition_point(|&start| start <= offset).saturating_sub(1)
\* Faulty variant of line_col: the partition point takes the line starts
\* before the offset, so an offset at a line start falls on the line before
line_col_strict(li, offset) ==
    With(Cardinality({i \in 1..Len(li.line_starts) : li.line_starts[i] < offset}),
         LAMBDA n :
        <<IF n > 0 THEN n - 1 ELSE 0,
          offset - li.line_starts[(IF n > 0 THEN n - 1 ELSE 0) + 1]>>)

line_col(li, offset) ==
    With(Cardinality({i \in 1..Len(li.line_starts) : li.line_starts[i] <= offset}),
         LAMBDA n :
        <<IF n > 0 THEN n - 1 ELSE 0,
          offset - li.line_starts[(IF n > 0 THEN n - 1 ELSE 0) + 1]>>)

\* str::starts_with
starts_with(s, prefix) ==
    Len(s) >= Len(prefix) /\ SubSeq(s, 1, Len(prefix)) = prefix

is_well_known_symbol(name) ==
    name \in {"y", "n", "m", "MODULES", "COMPILE_TEST", "EXPERT", "NET", "BLOCK",
              "SMP", "PCI", "USB", "HAS_IOMEM", "HAS_DMA", "MMU", "OF", "ACPI",
              "PM", "ARCH_HAS_DMA_PREP_COHERENT"}

\* the lsp::Diagnostic built from a span, a severity and a message
LspDiagnostic(fa, span, severity, message) ==
    [range |-> [start |-> line_col(fa.line_index, span.start),
                end |-> line_col(fa.line_index, span.end)],
     severity |-> severity, source |-> "kconfig-lsp", message |-> message]

\* the `for pd in &fa.diagnostics` loop of collect
RECURSIVE parse_diags(_, _)
parse_diags(fa, pds) ==
    IF pds = << >> THEN << >>
    ELSE <<LspDiagnostic(fa, Head(pds).span,
                         IF Head(pds).severity = "Error" THEN "ERROR" ELSE "WARNING",
                         Head(pds).message)>>
         \o parse_diags(fa, Tail(pds))

\* a collection that warns of every reference of the file, defined or not
RECURSIVE undefined_diags_ignoring_definitions(_, _, _, _)
undefined_diags_ignoring_definitions(index, fa, path, refs) ==
    IF refs = << >> THEN << >>
    ELSE (IF /\ Head(refs).file = path
             /\ ~is_well_known_symbol(Head(refs).name)
             /\ ~starts_with(Head(refs).name, "$(")
          THEN <<LspDiagnostic(fa, Head(refs).span, "WARNING",
                               "symbol " \o Head(refs).name
                               \o " is not defined in any open file")>>
          ELSE << >>)
         \o undefined_diags_ignoring_definitions(index, fa, path, Tail(refs))

\* the inner `for r in ref_entry` loop of collect; the message is written here
\* without the backquotes that the code puts around the name
RECURSIVE undefined_diags(_, _, _, _)
undefined_diags(index, fa, path, refs) ==
    IF refs = << >> THEN << >>
    ELSE (IF /\ Head(refs).file = path
             /\ get_definitions(index, Head(refs).name) = << >>
             /\ ~is_well_known_symbol(Head(refs).name)
             /\ ~starts_with(Head(refs).name, "$(")
          THEN <<LspDiagnostic(fa, Head(refs).span, "WARNING",
                               "symbol " \o Head(refs).name
                               \o " is not defined in any open file")>>
          ELSE << >>)
         \o undefined_diags(index, fa, path, Tail(refs))

\* the `for ref_entry in index.references.values()` loop of collect; order is
\* the order in which the map yields its keys
RECURSIVE values_diags(_, _, _, _)
values_diags(index, fa, path, order) ==
    IF order = << >> THEN << >>
    ELSE undefined_diags(index, fa, path, index.references[Head(order)])
         \o values_diags(index, fa, path, Tail(order))

collect(index, path, order) ==
    IF path \notin DOMAIN index.files THEN << >>
    ELSE parse_diags(index.files[path], index.files[path].diagnostics)
         \o values_diags(index, index.files[path], path, order)

(***************************************************************************)
(* Completion (completion.rs) and the offsets of the line index            *)
(***************************************************************************)
\* LineIndex::offset: the line start plus the column, or the last line start
\* for a line the text does not have
LineIndexOffset(li, line, col) ==
    IF line < Len(li.line_starts) THEN li.line_starts[line + 1] + col
    ELSE li.line_starts[Len(li.line_starts)]

\* the while loop of prefix_at_offset: the start of the run of word bytes
\* that ends at start, or -1 when bytes[start - 1] is outside the text
RECURSIVE prefix_start(_, _)
prefix_start(source, start) ==
    IF start <= 0 THEN start
    ELSE IF start - 1 >= Len(source) THEN -1
    ELSE IF ByteAt(source, start - 1) \in AsciiAlphanumeric \cup {"_"}
         THEN prefix_start(source, start - 1)
    ELSE start

\* prefix_at_offset: the word before the offset; the index bytes[start - 1]
\* and the slice source[start..offset] panic outside the text and inside a
\* character
prefix_at_offset(source, offset) ==
    With(prefix_start(source, offset), LAMBDA start :
        IF start < 0 \/ offset > Len(source)
              \/ ~is_char_boundary(source, start) \/ ~is_char_boundary(source, offset)
        THEN [panicked |-> TRUE, v |-> ""]
        ELSE [panicked |-> FALSE, v |-> Slice(source, start, offset)])

\* is_symbol_position: the line up to the offset, without its indentation,
\* is the start of an attribute that takes a symbol
is_symbol_position(source, offset) ==
    With(trim_start(Slice(source, rfind_newline(source, offset) + 1, offset)),
         LAMBDA before :
        \/ before \in {"depends on ", "select ", "imply ", "default ", "def_bool ",
                       "def_tristate "}
        \/ starts_with(before, "depends on ")
        \/ starts_with(before, "select ")
        \/ starts_with(before, "imply "))

\* const KEYWORDS of completion.rs
KEYWORDS ==
    <<"config", "menuconfig", "choice", "endchoice", "comment", "menu", "endmenu",
      "if", "endif", "source", "mainmenu", "bool", "tristate", "string", "hex", "int",
      "prompt", "default", "def_bool", "def_tristate", "depends", "select", "imply",
      "visible", "range", "help", "modules", "transitional", "optional">>

\* the detail of a symbol item: the prompt of its first definition
first_prompt(idx, sym) ==
    With(get_definitions(idx, sym), LAMBDA defs :
        IF Len(defs) = 0 THEN << >> ELSE defs[1].prompt)

\* the two loops of complete over a prefix that was computed
completion_items(idx, source, offset, prefix) ==
    With(SelectSeq(KEYWORDS, LAMBDA kw : starts_with(kw, prefix) \/ prefix = ""),
         LAMBDA kws :
    With(SelectSeq(idx.all_symbols, LAMBDA sym :
                \/ starts_with(sym, prefix)
                \/ prefix = "" /\ is_symbol_position(source, offset)),
         LAMBDA syms :
        [i \in 1..Len(kws) |-> [label |-> kws[i], kind |-> "KEYWORD", detail |-> << >>]]
        \o [i \in 1..Len(syms) |->
                [label |-> syms[i], kind |-> "CONSTANT",
                 detail |-> first_prompt(idx, syms[i])]]))

\* complete(index, path, pos): [panicked, v], v the Option of the items
complete(idx, path, line, col) ==
    IF path \notin DOMAIN idx.files THEN [panicked |-> FALSE, v |-> << >>]
    ELSE With(idx.files[path], LAMBDA fa :
         With(LineIndexOffset(fa.line_index, line, col), LAMBDA off :
         With(prefix_at_offset(fa.source, off), LAMBDA prefix :
            IF prefix.panicked THEN [panicked |-> TRUE, v |-> << >>]
            ELSE With(completion_items(idx, fa.source, off, prefix.v), LAMBDA items :
                    [panicked |-> FALSE,
                     v |-> IF Len(items) = 0 THEN << >> ELSE <<items>>]))))

(***************************************************************************)
(* State                                                                   *)
(***************************************************************************)
VARIABLES
    index,              \* the WorldIndex (Backend::index)
    prev,               \* the index and the contributions before the last index call
    last,               \* the last index call: [op, path, source]
    repeat,             \* TRUE when the last index call repeats the one before it
    contributed,        \* per path, the entries its analyze calls have appended
                        \* since the path was last removed: [defs, refs]
    doc,                \* the file given to parse: [before, bad, after]
    result,             \* Option: the ParseResult of doc, or of input
    input,              \* the text given to tokenize, parse or analyze_file
    lexed,              \* Option: the tokens of input
    reply,              \* Option: the answer to the last position query on input
    documents,          \* Backend::documents: uri -> text
    workspace_root,     \* Backend::workspace_root: Option
    workspace_files,    \* Backend::workspace_files
    ws_lock,            \* the holder of the workspace_files mutex, or 0
    lock,               \* the holder of the index mutex, or 0
    tasks,              \* the handlers in flight: task -> [kind, pc, path, ...]
    lifecycle,          \* "new", "initialize" (initialize was served) or
                        \* "initialized" (the initialized notification arrived)
    requests,           \* the number of handlers dispatched after initialize
    published           \* per uri, the diagnostics the client received last

indexVars == <<index, prev, last, repeat, contributed>>
parseVars == <<doc, result, input, lexed, reply>>
serverVars == <<documents, workspace_root, workspace_files, ws_lock, lock, tasks,
                lifecycle, requests, published>>
vars == <<indexVars, parseVars, serverVars>>

\* the elements of a sequence
Range(seq) == {seq[i] : i \in 1..Len(seq)}

\* the number of entries of a name-keyed mapping
RECURSIVE SumLen(_, _)
SumLen(m, keys) ==
    IF keys = {} THEN 0
    ELSE LET k == CHOOSE x \in keys : TRUE
         IN  Len(m[k]) + SumLen(m, keys \ {k})

MapSize(m) == SumLen(m, DOMAIN m)

\* the entries of a name-keyed mapping that path owns, per name
OwnedBy(m, path) ==
    [k \in {x \in DOMAIN m : \E i \in 1..Len(m[x]) : m[x][i].file = path} |->
        SelectSeq(m[k], LAMBDA x : x.file = path)]

\* a list of definitions or references as a name-keyed mapping
ByName(entries) ==
    [k \in {e.name : e \in Range(entries)} |->
        SelectSeq(entries, LAMBDA x : x.name = k)]

(***************************************************************************)
(* The index on its own: any sequence of analyze, reanalyze and remove     *)
(***************************************************************************)
\* Bound: analyze is offered while the two mappings hold fewer entries
MaxEntries == 2

NoOp == [op |-> "none", path |-> "", source |-> ""]

\* the state after Backend::new, with no file given to parse
ServerNew ==
    /\ documents = EmptyMap
    /\ workspace_root = << >>
    /\ workspace_files = {}
    /\ ws_lock = 0
    /\ lock = 0
    /\ tasks = EmptyMap
    /\ lifecycle = "new"
    /\ requests = 0
    /\ published = EmptyMap

IndexNew ==
    /\ index = WorldIndexNew
    /\ prev = [index |-> WorldIndexNew, contributed |-> [p \in Paths |-> [defs |-> 0, refs |-> 0]]]
    /\ last = NoOp
    /\ repeat = FALSE
    /\ contributed = [p \in Paths |-> [defs |-> 0, refs |-> 0]]

\* no file given to parse, no text given to the lexer
NoText ==
    /\ doc = [before |-> << >>, bad |-> "", after |-> << >>]
    /\ input = ""
    /\ lexed = << >>
    /\ reply = << >>

Init ==
    /\ IndexNew
    /\ ServerNew
    /\ NoText
    /\ result = << >>

Record(op, path, source) ==
    /\ prev' = [index |-> index, contributed |-> contributed]
    /\ last' = [op |-> op, path |-> path, source |-> source]
    /\ repeat' = (last = [op |-> op, path |-> path, source |-> source])

\* what analyze_file(path, source) appends to the two mappings
Contribution(path, source) ==
    With(Analysis(path, source), LAMBDA a :
        [defs |-> Len(a.defs), refs |-> Len(a.refs)])

\* analyze(path, text)
Analyze(path, source) ==
    /\ MapSize(index.definitions) + MapSize(index.references) < MaxEntries
    /\ index' = analyze_file(index, path, source)
    /\ contributed' =
          [contributed EXCEPT ![path] =
              [defs |-> @.defs + Contribution(path, source).defs,
               refs |-> @.refs + Contribution(path, source).refs]]
    /\ Record("analyze", path, source)
    /\ UNCHANGED <<parseVars, serverVars>>

\* reanalyze(path, text)
Reanalyze(path, source) ==
    /\ \E keys \in KeyOrders(RetainOthers(index.definitions, path)) :
            index' = reanalyze_file(index, path, source, keys)
    /\ contributed' = [contributed EXCEPT ![path] = Contribution(path, source)]
    /\ Record("reanalyze", path, source)
    /\ UNCHANGED <<parseVars, serverVars>>

\* remove(path)
Remove(path) ==
    /\ \E keys \in KeyOrders(RetainOthers(index.definitions, path)) :
            index' = remove_file(index, path, keys)
    /\ contributed' = [contributed EXCEPT ![path] = [defs |-> 0, refs |-> 0]]
    /\ Record("remove", path, "")
    /\ UNCHANGED <<parseVars, serverVars>>

Next ==
    \/ \E path \in Paths, source \in IndexTexts : Analyze(path, source)
    \/ \E path \in Paths, source \in IndexTexts : Reanalyze(path, source)
    \/ \E path \in Paths : Remove(path)

Spec == Init /\ [][Next]_vars

(***************************************************************************)
(* The server (server.rs: Backend).  A handler in flight is a task; a step  *)
(* of a task is the code between two points where it can wait: a mutex it   *)
(* locks, or an await.                                                      *)
(***************************************************************************)
\* Bound: the handlers dispatched after initialize
MaxRequests == 2

\* a task is named by the number of its handler
Tasks == 1..MaxRequests

ReadKinds == {"hover", "goto_definition", "references", "completion"}

WriteKinds == {"did_open", "did_change", "did_close"}

Task(kind, pc, path, text) ==
    [kind |-> kind, pc |-> pc, path |-> path, text |-> text,
     todo |-> {}, diags |-> << >>, pos |-> <<0, 0>>]

\* the dispatch layer serves handlers once initialize has returned; t is the
\* task of the next handler
CanDispatch(t) ==
    /\ lifecycle # "new"
    /\ requests < MaxRequests
    /\ t = requests + 1

At(t, pc) == t \in DOMAIN tasks /\ tasks[t].pc = pc

\* Faulty variant of CanLock: the caller does not wait for the mutex
CanLockAlways(t) == TRUE

\* self.index.lock(): the caller goes on once no task holds the mutex
CanLock(t) == lock = 0

\* the state of a mutex whose guard task t dropped in a panic: no task holds
\* it, and lock() returns the PoisonError from then on
Poison(t) == 0 - t

\* the points where a handler calls lock().unwrap() on the index mutex, and
\* on the workspace_files mutex
IndexLockPcs == {"lock", "scan_lock", "publish_lock"}

FilesLockPcs == {"ws_lock", "check"}

Goto(t, pc) == tasks' = [tasks EXCEPT ![t].pc = pc]

\* the handler returns
Return(t) == tasks' = MapRemove(tasks, t)

\* initialize: stores the root the client sent, if any
Initialize(root) ==
    /\ lifecycle = "new"
    /\ lifecycle' = "initialize"
    /\ workspace_root' = IF root # << >> THEN root ELSE workspace_root
    /\ UNCHANGED <<indexVars, parseVars, documents,
                   workspace_files, ws_lock, lock, tasks, requests, published>>

\* initialized, up to the workspace_files lock; with no root, up to the loop
\* over the open documents
Initialized(t) ==
    /\ CanDispatch(t)
    /\ lifecycle = "initialize"
    /\ lifecycle' = "initialized"
    /\ tasks' = MapInsert(tasks, t,
                    IF workspace_root # << >>
                    THEN [Task("initialized", "ws_lock", "", "") EXCEPT
                            !.todo = DOMAIN Disk]
                    ELSE [Task("initialized", "next_uri", "", "") EXCEPT
                            !.todo = DOMAIN documents])
    /\ requests' = requests + 1
    /\ UNCHANGED <<indexVars, parseVars, documents, workspace_root, workspace_files,
                   ws_lock, lock, published>>

\* self.workspace_files.lock()
ScanLockFiles(t) ==
    /\ At(t, "ws_lock")
    /\ ws_lock = 0
    /\ ws_lock' = t
    /\ Goto(t, "scan_lock")
    /\ UNCHANGED <<indexVars, parseVars, documents, workspace_root, workspace_files,
                   lock, lifecycle, requests, published>>

\* self.index.lock() of initialized
ScanLock(t) ==
    /\ At(t, "scan_lock")
    /\ CanLock(t)
    /\ lock' = t
    /\ Goto(t, "scan")
    /\ UNCHANGED <<indexVars, parseVars, documents, workspace_root, workspace_files,
                   ws_lock, lifecycle, requests, published>>

\* Faulty variant of ScanFile: the index mutex is taken for one file at a time
ScanFileUnlocked(t) ==
    /\ At(t, "scan")
    /\ lock \in {0, t}
    /\ \E path \in tasks[t].todo :
          /\ tasks' = [tasks EXCEPT ![t].todo = @ \ {path}]
          /\ IF Disk[path] # << >>
             THEN /\ index' = analyze_file(index, path, Disk[path][1])
                  /\ workspace_files' = workspace_files \cup {path}
             ELSE UNCHANGED <<index, workspace_files, published>>
    /\ lock' = 0
    /\ UNCHANGED <<prev, last, repeat, contributed, parseVars, documents,
                   workspace_root, ws_lock, lifecycle, requests, published>>

\* one iteration of `for path in kconfig_files`; the files come in the order
\* the directory walk yields them
ScanFile(t) ==
    /\ At(t, "scan")
    /\ lock = t
    /\ \E path \in tasks[t].todo :
          /\ tasks' = [tasks EXCEPT ![t].todo = @ \ {path}]
          /\ IF Disk[path] # << >>
             THEN /\ index' = analyze_file(index, path, Disk[path][1])
                  /\ workspace_files' = workspace_files \cup {path}
             ELSE UNCHANGED <<index, workspace_files, published>>
    /\ UNCHANGED <<prev, last, repeat, contributed, parseVars, documents,
                   workspace_root, ws_lock, lock, lifecycle, requests, published>>

\* the end of the scan block: both guards are dropped, and the open
\* documents are listed
ScanUnlock(t) ==
    /\ At(t, "scan")
    /\ tasks[t].todo = {}
    /\ lock' = 0
    /\ ws_lock' = 0
    /\ tasks' = [tasks EXCEPT ![t].pc = "next_uri", ![t].todo = DOMAIN documents]
    /\ UNCHANGED <<indexVars, parseVars, documents, workspace_root, workspace_files,
                   lifecycle, requests, published>>

\* `for uri in open_uris`: the next document, or the end of the handler
NextUri(t) ==
    /\ At(t, "next_uri")
    /\ IF tasks[t].todo = {}
       THEN Return(t)
       ELSE /\ \E path \in tasks[t].todo :
                  tasks' = [tasks EXCEPT ![t].pc = "publish_lock", ![t].path = path,
                                         ![t].todo = @ \ {path}]
    /\ UNCHANGED <<indexVars, parseVars, documents,
                   workspace_root, workspace_files, ws_lock, lock, lifecycle,
                   requests, published>>

\* did_open, up to the index lock
DidOpen(t, path, text) ==
    /\ CanDispatch(t)
    /\ path \notin DOMAIN documents
    /\ documents' = MapInsert(documents, path, text)
    /\ tasks' = MapInsert(tasks, t, Task("did_open", "lock", path, text))
    /\ requests' = requests + 1
    /\ UNCHANGED <<indexVars, parseVars, workspace_root, workspace_files, ws_lock,
                   lock, lifecycle, published>>

\* did_change, up to the index lock
DidChange(t, path, text) ==
    /\ CanDispatch(t)
    /\ path \in DOMAIN documents
    /\ documents' = MapInsert(documents, path, text)
    /\ tasks' = MapInsert(tasks, t, Task("did_change", "lock", path, text))
    /\ requests' = requests + 1
    /\ UNCHANGED <<indexVars, parseVars, workspace_root, workspace_files, ws_lock,
                   lock, lifecycle, published>>

\* did_close, up to the workspace_files lock
DidClose(t, path) ==
    /\ CanDispatch(t)
    /\ path \in DOMAIN documents
    /\ documents' = MapRemove(documents, path)
    /\ tasks' = MapInsert(tasks, t, Task("did_close", "check", path, ""))
    /\ requests' = requests + 1
    /\ UNCHANGED <<indexVars, parseVars, workspace_root, workspace_files, ws_lock,
                   lock, lifecycle, published>>

\* did_close: is_workspace_file and the read of the file; the handler ends
\* here unless the path is a workspace file that can be read
CloseCheck(t) ==
    /\ At(t, "check")
    /\ ws_lock = 0
    /\ IF tasks[t].path \in workspace_files /\ Disk[tasks[t].path] # << >>
       THEN /\ tasks' = [tasks EXCEPT ![t].pc = "lock",
                                      ![t].text = Disk[tasks[t].path][1]]
       ELSE Return(t)
    /\ UNCHANGED <<indexVars, parseVars, documents,
                   workspace_root, workspace_files, ws_lock, lock, lifecycle,
                   requests, published>>

\* self.index.lock() of did_open, did_change and did_close
WriteLock(t) ==
    /\ At(t, "lock")
    /\ tasks[t].kind \in WriteKinds
    /\ CanLock(t)
    /\ lock' = t
    /\ Goto(t, "remove")
    /\ UNCHANGED <<indexVars, parseVars, documents, workspace_root, workspace_files,
                   ws_lock, lifecycle, requests, published>>

\* reanalyze_file, first half: remove_file
WriteRemove(t) ==
    /\ At(t, "remove")
    /\ \E keys \in KeyOrders(RetainOthers(index.definitions, tasks[t].path)) :
          index' = remove_file(index, tasks[t].path, keys)
    /\ Goto(t, "analyze")
    /\ UNCHANGED <<prev, last, repeat, contributed, parseVars, documents,
                   workspace_root, workspace_files, ws_lock, lock, lifecycle,
                   requests, published>>

\* reanalyze_file, second half: analyze_file; the guard is dropped, and
\* did_close ends
WriteAnalyze(t) ==
    /\ At(t, "analyze")
    /\ index' = analyze_file(index, tasks[t].path, tasks[t].text)
    /\ lock' = 0
    /\ IF tasks[t].kind = "did_close"
       THEN Return(t)
       ELSE Goto(t, "publish_lock")
    /\ UNCHANGED <<prev, last, repeat, contributed, parseVars, documents, workspace_root,
                   workspace_files, ws_lock, lifecycle, requests, published>>

\* publish_diagnostics: self.index.lock()
PublishLock(t) ==
    /\ At(t, "publish_lock")
    /\ CanLock(t)
    /\ lock' = t
    /\ Goto(t, "collect")
    /\ UNCHANGED <<indexVars, parseVars, documents, workspace_root, workspace_files,
                   ws_lock, lifecycle, requests, published>>

\* publish_diagnostics: diagnostics::collect, then the guard is dropped
Collect(t) ==
    /\ At(t, "collect")
    /\ \E order \in KeyOrders(index.references) :
          tasks' = [tasks EXCEPT ![t].pc = "publish",
                                 ![t].diags = collect(index, tasks[t].path, order)]
    /\ lock' = 0
    /\ UNCHANGED <<indexVars, parseVars, documents, workspace_root, workspace_files,
                   ws_lock, lifecycle, requests, published>>

\* publish_diagnostics: client.publish_diagnostics(..).await, which hands
\* the collected diagnostics to the client
Publish(t) ==
    /\ At(t, "publish")
    /\ published' = MapInsert(published, tasks[t].path, tasks[t].diags)
    /\ IF tasks[t].kind = "initialized"
       THEN tasks' = [tasks EXCEPT ![t].pc = "next_uri", ![t].diags = << >>]
       ELSE Return(t)
    /\ UNCHANGED <<indexVars, parseVars, documents,
                   workspace_root, workspace_files, ws_lock, lock, lifecycle,
                   requests>>

\* hover, goto_definition, references: up to the index lock (word_at_offset
\* answers None for an offset outside the text, so the position asked about
\* plays no part in the locking)
Read(t, kind) ==
    /\ CanDispatch(t)
    /\ tasks' = MapInsert(tasks, t, Task(kind, "lock", "", ""))
    /\ requests' = requests + 1
    /\ UNCHANGED <<indexVars, parseVars, documents, workspace_root, workspace_files,
                   ws_lock, lock, lifecycle, published>>

\* completion: up to the index lock
Completion(t, path, pos) ==
    /\ CanDispatch(t)
    /\ tasks' = MapInsert(tasks, t, [Task("completion", "lock", path, "") EXCEPT
                                        !.pos = pos])
    /\ requests' = requests + 1
    /\ UNCHANGED <<indexVars, parseVars, documents, workspace_root, workspace_files,
                   ws_lock, lock, lifecycle, published>>

\* self.index.lock() of a read
ReadLock(t) ==
    /\ At(t, "lock")
    /\ tasks[t].kind \in ReadKinds
    /\ CanLock(t)
    /\ lock' = t
    /\ Goto(t, "read")
    /\ UNCHANGED <<indexVars, parseVars, documents, workspace_root, workspace_files,
                   ws_lock, lifecycle, requests, published>>

\* the lookup under the guard, and the return that drops it; a panic of
\* complete drops the guard too, and poisons the mutex
ReadReturn(t) ==
    /\ At(t, "read")
    /\ lock' = IF /\ tasks[t].kind = "completion"
                  /\ complete(index, tasks[t].path, tasks[t].pos[1],
                              tasks[t].pos[2]).panicked
               THEN Poison(t)
               ELSE 0
    /\ Return(t)
    /\ UNCHANGED <<indexVars, parseVars, documents,
                   workspace_root, workspace_files, ws_lock, lifecycle, requests, published>>

\* lock().unwrap() on a poisoned mutex: the handler panics without the
\* guard it asked for, and a guard it holds is dropped in that panic
LockPoisoned(t) ==
    /\ t \in DOMAIN tasks
    /\ tasks[t].pc \in (IF lock < 0 THEN IndexLockPcs ELSE {})
                          \cup (IF ws_lock < 0 THEN FilesLockPcs ELSE {})
    /\ ws_lock' = IF ws_lock = t THEN Poison(t) ELSE ws_lock
    /\ Return(t)
    /\ UNCHANGED <<indexVars, parseVars, documents,
                   workspace_root, workspace_files, lock, lifecycle, requests, published>>

NextServer ==
    \/ \E root \in {<< >>, <<"/ws">>} : Initialize(root)
    \/ \E t \in Tasks : Initialized(t)
    \/ \E t \in Tasks : ScanLockFiles(t)
    \/ \E t \in Tasks : ScanLock(t)
    \/ \E t \in Tasks : ScanFile(t)
    \/ \E t \in Tasks : ScanUnlock(t)
    \/ \E t \in Tasks : NextUri(t)
    \/ \E t \in Tasks, path \in OpenPaths, text \in EditorTexts : DidOpen(t, path, text)
    \/ \E t \in Tasks, path \in OpenPaths, text \in EditorTexts : DidChange(t, path, text)
    \/ \E t \in Tasks, path \in OpenPaths : DidClose(t, path)
    \/ \E t \in Tasks : CloseCheck(t)
    \/ \E t \in Tasks : WriteLock(t)
    \/ \E t \in Tasks : WriteRemove(t)
    \/ \E t \in Tasks : WriteAnalyze(t)
    \/ \E t \in Tasks : PublishLock(t)
    \/ \E t \in Tasks : Collect(t)
    \/ \E t \in Tasks : Publish(t)
    \/ \E t \in Tasks, kind \in ReadKinds \ {"completion"} : Read(t, kind)
    \/ \E t \in Tasks, path \in OpenPaths, pos \in Carets : Completion(t, path, pos)
    \/ \E t \in Tasks : ReadLock(t)
    \/ \E t \in Tasks : ReadReturn(t)
    \/ \E t \in Tasks : LockPoisoned(t)

SpecServer == Init /\ [][NextServer]_vars

(***************************************************************************)
(* The parser on its own: files in which one statement line is malformed    *)
(***************************************************************************)
\* a well-formed line: its text, and the entry (by name) or attribute (by
\* tag) that it writes
Line(text, kind, key) == [text |-> text, kind |-> kind, key |-> key]

\* The files given to parse.  In the first family the malformed line stands
\* among the attributes of `config A`: a missing expression, a missing bound,
\* both bounds missing, a dangling operator, a doubled operator, an unclosed
\* parenthesis, a missing symbol, a missing string, trailing tokens, an
\* unterminated string, an unknown word.  In the second it stands between
\* entries: an unknown word, config and menuconfig without a name, source
\* without a path, a name followed by trailing tokens, a path whose string is
\* unterminated.
ParseDocs ==
    {[before |-> b, bad |-> x, after |-> a] :
        b \in {<<Line("config A\n", "entry", "A"),
                 Line("\tbool \"a\"\n", "attr", "Type")>>,
               <<Line("config A\n", "entry", "A")>>},
        x \in {"\tdepends on\n", "\trange 1\n", "\trange\n", "\tdepends on X &&\n",
               "\tdepends on X && && Y\n", "\tdepends on (X\n", "\tselect\n",
               "\tprompt\n", "\tdepends on X Y\n", "\tprompt \"abc\n", "\tfoo\n"},
        a \in {<<Line("\tdefault y\n", "attr", "Default")>>,
               <<Line("\tdefault y\n", "attr", "Default"),
                 Line("config B\n", "entry", "B"),
                 Line("\ttristate\n", "attr", "Type")>>,
               <<Line("config B\n", "entry", "B"),
                 Line("\ttristate\n", "attr", "Type")>>}}
    \cup
    {[before |-> b, bad |-> x, after |-> a] :
        b \in {<< >>,
               <<Line("config A\n", "entry", "A"),
                 Line("\tbool \"a\"\n", "attr", "Type")>>},
        x \in {"foo\n", "config\n", "menuconfig\n", "source\n", "config C D\n",
               "source \"abc\n"},
        a \in {<<Line("config B\n", "entry", "B"),
                 Line("\ttristate\n", "attr", "Type")>>,
               <<Line("config B\n", "entry", "B")>>}}

\* the text of a list of lines
RECURSIVE LinesText(_)
LinesText(lines) ==
    IF lines = << >> THEN "" ELSE Head(lines).text \o LinesText(Tail(lines))

DocText(d) == LinesText(d.before) \o d.bad \o LinesText(d.after)

InitParse ==
    /\ IndexNew
    /\ ServerNew
    /\ doc \in ParseDocs
    /\ input = ""
    /\ lexed = << >>
    /\ reply = << >>
    /\ result = << >>

\* parse(source, Lexer::new(source).tokenize())
Parse ==
    /\ result = << >>
    /\ result' = <<parse(DocText(doc), tokenize(DocText(doc)))>>
    /\ UNCHANGED <<doc, input, lexed, reply, indexVars, serverVars>>

SpecParse == InitParse /\ [][Parse]_vars

(***************************************************************************)
(* One file through the pipeline: parse on its text, and analyze_file on    *)
(* an empty index                                                           *)
(***************************************************************************)
\* the first line of a block, "" for no block
BlockOpen(k) ==
    CASE k = "choice" -> "choice\n"
      [] k = "menu" -> "menu \"M\"\n"
      [] k = "if" -> "if X\n"
      [] OTHER -> ""

\* the closing line of a block, "" for no block
BlockClose(k) ==
    CASE k = "choice" -> "endchoice\n"
      [] k = "menu" -> "endmenu\n"
      [] k = "if" -> "endif\n"
      [] OTHER -> ""

\* the Entry variant of a block
BlockTag(k) ==
    CASE k = "choice" -> "Choice" [] k = "menu" -> "Menu" [] OTHER -> "If"

\* A block k that holds `config A` and `config B` and has no closing keyword:
\* alone in the file (w = ""), or as the only entry of a block w that is
\* closed and followed by `config C`
BlockText(w, k) ==
    IF w = "" THEN BlockOpen(k) \o "config A\nconfig B\n"
    ELSE BlockOpen(w) \o BlockOpen(k) \o "config A\nconfig B\n"
         \o BlockClose(w) \o "config C\n"

BlockTexts == {BlockText(w, k) : w \in {"", "menu", "if"}, k \in {"choice", "menu", "if"}}

\* Malformed texts: stray closing keywords, keywords without their
\* arguments, unclosed parentheses, strings and macros, a help text at the
\* end of the file, and a help text whose second line is indented with a tab
\* and a no-break space
RoughTexts ==
    {"endmenu\nconfig A\n", "endchoice\n", "endif\nconfig A\n\tbool\n",
     "config\n", "menuconfig\n\tbool\n", "config A\n\tfoo\n",
     "config A\n\tdepends on (\n", "config A\n\tdepends on !\n",
     "menu\n", "menu \"M\"\n\tvisible\n", "if\nconfig A\n", "if X Y\nendif\n",
     "choice\n\toptional x\n", "choice\n\tprompt\nendchoice\n",
     "source\n", "mainmenu\n", "comment\n\tdepends\n",
     "config A\n\thelp", "config A\n\thelp\n",
     "config A\n\thelp\n\t\tfoo\n\t" \o Nbsp \o "bar\n",
     "config A\n\tselect\n", "config A\n\timply if\n",
     "config A\n\tprompt \"abc\n", "config A\n\tdefault $(shell,(\n",
     ") ) )\n", "&& || !\n", "config A\n\trange\n", "\"abc\n",
     "config A\n\tdef_bool\n", "config A\n\tint \"n\" if\n",
     "config A # c\n\tbool # d\n# e", "on on on\n",
     "config A\n\tbool\n\tselect y\n", "config A\n\tbool\n\timply m if n\n"}

\* a file that uses the constructs of the entry grammar, after the sample of
\* tests/parse_kernel_kconfig.rs
SampleText ==
    "mainmenu \"L\"\n"
    \o "config AUDIT\n\tbool \"Au\"\n\thelp\n\t  Enable it.\n\n"
    \o "menuconfig MODULES\n\ttristate\n\tmodules\n"
    \o "menu \"G\"\n\tdepends on !UML\n"
    \o "choice\n\tprompt \"Le\"\nconfig FAST\n\tdef_bool y\nendchoice\n"
    \o "if EXPERT\nconfig CR\n\tselect PC\n\timply TR\nendif\n"
    \o "source \"k/Kconfig\"\n"
    \o "config FOO\n\trange 1 100\n\tdefault 50\n\ttransitional\n"
    \o "endmenu\n"

\* Well-formed texts, one construct of the entry grammar each, and the sample
GrammarTexts ==
    {"mainmenu \"Linux\"\n", "source \"kernel/Kconfig.hz\"\n",
     "config A\n\tbool \"a\"\n", "menuconfig M\n\ttristate \"m\"\n\tmodules\n",
     "config A\n\tstring \"a\" if X\n", "config A\n\thex\n\tprompt \"a\" if X && Y\n",
     "config A\n\tbool\n\tdepends on B && !C\n",
     "config A\n\tbool\n\tdepends on (B || C) && D = \"x\"\n",
     "config A\n\tbool\n\tdepends on B != n # note\n",
     "config A\n\tbool\n\tdefault y\n", "config A\n\tbool\n\tdefault B if C\n",
     "config A\n\tstring\n\tdefault \"s\"\n", "config A\n\tbool\n\tdefault $(cc,-x)\n",
     "config A\n\tbool\n\tselect B\n", "config A\n\tbool\n\tselect B if C\n",
     "config A\n\tbool\n\timply B\n", "config A\n\tbool\n\timply B if C\n",
     "config A\n\tint \"n\"\n\trange 1 100\n", "config A\n\tint\n\trange B C if D\n",
     "config A\n\tdef_bool y\n", "config A\n\tdef_tristate m if MODULES\n",
     "config A\n\tbool\n\thelp\n\t  One's text.\n\t  Two.\n\nconfig B\n\tbool\n",
     "config A\n\tbool\n\ttransitional\n",
     "menu \"M\"\n\tdepends on !X\n\nconfig A\n\tbool\n\nendmenu\n",
     "menu \"M\"\n\tvisible if X\nendmenu\nconfig A\n",
     "choice\n\tprompt \"c\"\n\tdefault A\n\nconfig A\n\tbool \"a\"\n\nconfig B\n\tbool \"b\"\n\nendchoice\n",
     "if X\n\nconfig A\n\tbool\n\nendif\n",
     "menu \"M\"\nif X\nchoice\nconfig A\nendchoice\nendif\nendmenu\nconfig B\n",
     "comment \"c\"\n\tdepends on X\n", "# c\n\nconfig A # d\n\tbool # e\n",
     "config A\n\tbool \"A\"\n\tdepends on B\n",
     "config A\n\tbool \"A\"\n\tdepends on B\nconfig B\n\tbool \"B\"\n",
     "config A\n\tbool\nconfig A\n\tdef_bool y\n",
     "config A\n\tbool\n\thelp\n\t  one\n\t    two\n\t  three\nconfig B\n\tbool\n",
     SampleText}

\* Bound: the number of lines after the `help` line in HelpTexts
MaxHelpLines == 3

\* lines of a help text: blank, indented by 2, 4, 2 and 1 bytes, and not at all
HelpLines == {"", "  one", "    two", "  three", "\tx", "y"}

\* every sequence of at most n lines of HelpLines
RECURSIVE HelpBodies(_)
HelpBodies(n) ==
    IF n = 0 THEN {<< >>}
    ELSE HelpBodies(n - 1)
         \cup {Append(b, l) : b \in {x \in HelpBodies(n - 1) : Len(x) = n - 1},
                              l \in HelpLines}

\* a config whose last attribute is `help`, then the lines of body, each after
\* a newline, then ending
RECURSIVE HelpText(_, _)
HelpText(body, ending) ==
    IF body = << >> THEN "config A\n\tbool\n\thelp" \o ending
    ELSE HelpText(SubSeq(body, 1, Len(body) - 1), "\n" \o body[Len(body)] \o ending)

HelpTexts == {HelpText(b, e) : b \in HelpBodies(MaxHelpLines), e \in {"", "\n"}}

\* one line of help text each, with the bytes that mean something to the lexer
HelpWords ==
    {"plain words", "it's here", "say \"x", "a \"b\" c", "use $(CC) now", "use $(CC now",
     "# not a comment", "a \\ b", "ends with \\", "1 < 2 && !x || (y)", "config C"}

\* config A with a help text of one line, then config B on the next line
HelpThenEntry(h) == "config A\n\tbool\n\thelp\n\t  " \o h \o "\nconfig B\n\tbool\n"

\* the binary operators of an expression
ExprOps == {"||", "&&", "=", "!=", "<", "<=", ">", ">="}

\* three operands joined by two operators
Chain(op1, op2) == "A " \o op1 \o " B " \o op2 \o " C"

\* the expressions given to parse_expr: every chain of two operators, and
\* operands that are negated or parenthesised
ExprWords ==
    {Chain(op1, op2) : op1 \in ExprOps, op2 \in ExprOps}
        \cup {"!A = B", "!!A", "(A || B) && C", "A && (B || C)", "!(A < B)",
               "A || B && C || D", "A < B && C < D", "A && B = \"s\""}

\* config X with the expression as its dependency
ExprText(e) == "config X\n\tdepends on " \o e \o "\n"

\* the keywords that are also symbol names
SymbolKeywords == {"on", "modules", "optional", "transitional", "bool", "tristate", "hex", "int"}

\* the places of a name: after config and menuconfig, after select and imply,
\* and as a term of an expression
NameForms == {"config", "menuconfig", "select", "imply", "depends", "default"}

\* a text with the word kw at the place of a name
NamedText(form, kw) ==
    CASE form = "config" -> "config " \o kw \o "\n\tbool\n"
      [] form = "menuconfig" -> "menuconfig " \o kw \o "\n\tbool\n"
      [] form = "select" -> "config X\n\tselect " \o kw \o "\n"
      [] form = "imply" -> "config X\n\timply " \o kw \o " if " \o kw \o "\n"
      [] form = "depends" ->
            "config X\n\tdepends on !" \o kw \o " && (" \o kw \o " = y)\n"
      [] OTHER -> "config X\n\tdefault " \o kw \o " if A || " \o kw \o "\n"

\* the spellings of two tokens with a line continuation between them
ContWords == {"A", "config", "\"s\"", "&&", "(", "$(m)", "=", "!", "if"}

\* what stands between the two: `\` + newline after a space, with the next
\* line indented or not, without a space before it, and two in a row
ContGaps == {" \\\n ", " \\\n\t", " \\\n", "\\\n", " \\\n \\\n\t"}

\* a dependency written over three physical lines
ContStatement == "config X\n\tdepends on B && \\\n\t\tC || \\\n\t\tD\n"

ContTexts == {x \o gap \o y : x \in ContWords, gap \in ContGaps, y \in ContWords}

\* the texts given to parse and to analyze_file
FileTexts ==
    BlockTexts \cup RoughTexts \cup GrammarTexts \cup HelpTexts
        \cup {HelpThenEntry(h) : h \in HelpWords}
        \cup {ExprText(e) : e \in ExprWords}
        \cup ContTexts \cup {ContStatement}
        \cup {NamedText(form, kw) : form \in NameForms, kw \in SymbolKeywords}

\* the path the file is analyzed under
FilePath == "/ws/Kconfig"

InitFile ==
    /\ IndexNew
    /\ ServerNew
    /\ doc = [before |-> << >>, bad |-> "", after |-> << >>]
    /\ input \in FileTexts
    /\ lexed = << >>
    /\ reply = << >>
    /\ result = << >>

\* parse(source, Lexer::new(source).tokenize())
ParseFile ==
    /\ result = << >>
    /\ result' = <<parse(input, tokenize(input))>>
    /\ UNCHANGED <<doc, input, lexed, reply, indexVars, serverVars>>

\* WorldIndex::new().analyze_file(path, source)
AnalyzeFile ==
    /\ FilePath \notin DOMAIN index.files
    /\ index' = analyze_file(index, FilePath, input)
    /\ UNCHANGED <<prev, last, repeat, contributed, parseVars, serverVars>>

\* Lexer::new(source).tokenize()
Tokenize ==
    /\ lexed = << >>
    /\ lexed' = <<tokenize(input)>>
    /\ UNCHANGED <<doc, result, input, reply, indexVars, serverVars>>

NextFile == ParseFile \/ AnalyzeFile \/ Tokenize

SpecFile == InitFile /\ [][NextFile]_vars

(***************************************************************************)
(* The lexer on its own: one text through tokenize                         *)
(***************************************************************************)
\* Bound: the length of the texts built from LexBytes
MaxTextLen == 3

\* the bytes of the short texts: an identifier byte, a byte that only
\* continues an identifier, blanks, the newline, the quote, the backslash, the
\* bytes of a macro, the comment sign, operators and a byte of no token
LexBytes == {"a", "-", " ", "\t", "\n", "\"", "\\", "$", "(", ")", "#", "&", "!", "=", "@"}

\* every text of at most n bytes of LexBytes
RECURSIVE TextsUpTo(_)
TextsUpTo(n) ==
    IF n = 0 THEN {""}
    ELSE TextsUpTo(n - 1)
         \cup {t \o b : t \in {x \in TextsUpTo(n - 1) : Len(x) = n - 1}, b \in LexBytes}

\* the spellings of the keyword table
KeywordSpellings ==
    {"config", "menuconfig", "choice", "endchoice", "comment", "menu", "endmenu", "if",
     "endif", "source", "mainmenu", "bool", "tristate", "string", "hex", "int", "prompt",
     "default", "def_bool", "def_tristate", "depends", "on", "select", "imply", "visible",
     "range", "help", "---help---", "modules", "transitional", "optional"}

\* the texts given to tokenize
LexTexts == TextsUpTo(MaxTextLen) \cup FileTexts \cup KeywordSpellings

InitLex ==
    /\ IndexNew
    /\ ServerNew
    /\ doc = [before |-> << >>, bad |-> "", after |-> << >>]
    /\ input \in LexTexts
    /\ lexed = << >>
    /\ reply = << >>
    /\ result = << >>

NextLex == Tokenize

SpecLex == InitLex /\ [][NextLex]_vars

(***************************************************************************)
(* Position queries: the line index and completion on one analyzed text    *)
(***************************************************************************)
\* Bound: the length of the texts built from a letter and the newline
MaxLineTextLen == 4

\* Bound: the largest line of a caret
MaxCaretLine == 3

\* Bound: the largest character column of a caret
MaxCaretCol == 10

\* every text of at most n bytes, each the letter or the newline
RECURSIVE LinesUpTo(_)
LinesUpTo(n) ==
    IF n = 0 THEN {""}
    ELSE LinesUpTo(n - 1)
         \cup {t \o b : t \in {x \in LinesUpTo(n - 1) : Len(x) = n - 1}, b \in {"a", "\n"}}

\* the texts the positions are taken in: the short ones, entries with and
\* without a final newline, a caret after an attribute keyword, and a text
\* with a character of two bytes
QueryTexts ==
    LinesUpTo(MaxLineTextLen)
        \cup {"config A\n", "config A\n\tselect B", "config AB\n\tbool \"x\"\n\tdefault ",
              "a" \o Nbsp \o "\nb"}

InitQuery ==
    /\ IndexNew
    /\ ServerNew
    /\ doc = [before |-> << >>, bad |-> "", after |-> << >>]
    /\ input \in QueryTexts
    /\ lexed = << >>
    /\ reply = << >>
    /\ result = << >>

\* complete(&idx, &path, pos) on the analyzed text
Complete(line, col) ==
    /\ FilePath \in DOMAIN index.files
    /\ reply = << >>
    /\ reply' = <<[query |-> "complete", line |-> line, col |-> col,
                   offset |-> LineIndexOffset(index.files[FilePath].line_index, line, col),
                   answer |-> complete(index, FilePath, line, col)]>>
    /\ UNCHANGED <<doc, result, input, lexed, indexVars, serverVars>>

\* line_index.line_col(o), and line_index.offset of the pair it returns
LineCol(o) ==
    /\ FilePath \in DOMAIN index.files
    /\ reply = << >>
    /\ reply' = With(index.files[FilePath].line_index, LAMBDA li :
                With(line_col(li, o), LAMBDA lc :
                    <<[query |-> "line_col", offset |-> o, line |-> lc[1], col |-> lc[2],
                       answer |-> LineIndexOffset(li, lc[1], lc[2])]>>))
    /\ UNCHANGED <<doc, result, input, lexed, indexVars, serverVars>>

NextQuery ==
    \/ AnalyzeFile
    \/ \E line \in 0..MaxCaretLine, col \in 0..MaxCaretCol : Complete(line, col)
    \/ \E o \in 0..Len(input) : LineCol(o)

SpecQuery == InitQuery /\ [][NextQuery]_vars

(***************************************************************************)
(* Properties of the index                                                 *)
(***************************************************************************)
\* C1: after any sequence of analyze, reanalyze and remove calls, every
\* definition and reference extracted from the stored AST of a path in the
\* file map is in the name-keyed mapping under its name with that owning file,
\* and neither mapping holds an entry whose owning file is not in the file map.
IndexCoversFiles ==
    /\ \A path \in DOMAIN index.files :
          /\ \A d \in Range(collect_entries(index.files[path].file.entries, path).defs) :
                d.file = path /\ d \in Range(get_definitions(index, d.name))
          /\ \A r \in Range(collect_entries(index.files[path].file.entries, path).refs) :
                r.file = path /\ r \in Range(get_references(index, r.name))
    /\ \A name \in DOMAIN index.definitions :
          \A d \in Range(index.definitions[name]) : d.file \in DOMAIN index.files
    /\ \A name \in DOMAIN index.references :
          \A r \in Range(index.references[name]) : r.file \in DOMAIN index.files

\* a remove has left the other file, with its references, in the index
IndexCoversFilesSeen ==
    /\ last.op = "remove"
    /\ DOMAIN prev.index.files = Paths
    /\ DOMAIN index.files # {}
    /\ index.references # EmptyMap

\* C2: reanalyze(path, text) leaves the state that remove(path) followed by
\* analyze(path, text) produces: the definitions and references path owns and
\* its bundle are exactly those of the new text, and a name that only the
\* previous text of path defined is not in all_symbols.
ReanalyzeReplaces ==
    last.op = "reanalyze" =>
        /\ \E keys \in KeyOrders(RetainOthers(prev.index.definitions, last.path)) :
              index = analyze_file(remove_file(prev.index, last.path, keys),
                                   last.path, last.source)
        /\ last.path \in DOMAIN index.files
        /\ index.files[last.path] = FileAnalysisOf(last.path, last.source).bundle
        /\ OwnedBy(index.definitions, last.path)
              = ByName(FileAnalysisOf(last.path, last.source).defs)
        /\ OwnedBy(index.references, last.path)
              = ByName(FileAnalysisOf(last.path, last.source).refs)
        /\ \A name \in DOMAIN prev.index.definitions :
              (/\ \A d \in Range(prev.index.definitions[name]) : d.file = last.path
               /\ name \notin DOMAIN ByName(FileAnalysisOf(last.path, last.source).defs))
              => ~Contains(index.all_symbols, name)

\* a reanalyze has replaced another text of the path and dropped a name
ReanalyzeReplacesSeen ==
    /\ last.op = "reanalyze"
    /\ last.path \in DOMAIN prev.index.files
    /\ prev.index.files[last.path].source # last.source
    /\ OwnedBy(prev.index.references, last.path) # EmptyMap
    /\ DOMAIN prev.index.definitions \ DOMAIN index.definitions # {}

\* C3: calling reanalyze(path, text) twice in a row gives, after the second
\* call, the definitions, the references and the diagnostics of every file
\* that the first call left.
ReanalyzeIdempotent ==
    (repeat /\ last.op = "reanalyze") =>
        /\ index.definitions = prev.index.definitions
        /\ index.references = prev.index.references
        /\ DOMAIN index.files = DOMAIN prev.index.files
        /\ \A path \in DOMAIN index.files :
              /\ index.files[path].diagnostics = prev.index.files[path].diagnostics
              /\ \A order \in KeyOrders(index.references) :
                    collect(index, path, order) = collect(prev.index, path, order)

\* a reanalyze was repeated on a text with a parse diagnostic while the other
\* file was in the index
ReanalyzeIdempotentSeen ==
    /\ repeat
    /\ last.op = "reanalyze"
    /\ index.files[last.path].diagnostics # << >>
    /\ DOMAIN index.files = Paths
    /\ index.references # EmptyMap

\* C4: remove(path) takes from the definitions mapping exactly the N entries
\* and from the references mapping exactly the M entries that path had
\* contributed, deletes the bundle of path, leaves what every other path owns
\* unchanged, and keeps a name in all_symbols exactly when another file
\* defines it.
RemoveIsolated ==
    last.op = "remove" =>
        /\ MapSize(index.definitions)
              = MapSize(prev.index.definitions) - prev.contributed[last.path].defs
        /\ MapSize(index.references)
              = MapSize(prev.index.references) - prev.contributed[last.path].refs
        /\ DOMAIN index.files = DOMAIN prev.index.files \ {last.path}
        /\ \A other \in Paths \ {last.path} :
              /\ OwnedBy(index.definitions, other) = OwnedBy(prev.index.definitions, other)
              /\ OwnedBy(index.references, other) = OwnedBy(prev.index.references, other)
              /\ other \in DOMAIN index.files =>
                    index.files[other] = prev.index.files[other]
        /\ \A name \in DOMAIN prev.index.definitions \cup Range(prev.index.all_symbols) :
              Contains(index.all_symbols, name)
                 <=> \E d \in Range(get_definitions(prev.index, name)) : d.file # last.path

\* a remove of a file with definitions and references, one of its names also
\* defined by the other file
RemoveIsolatedSeen ==
    /\ last.op = "remove"
    /\ prev.contributed[last.path].defs > 0
    /\ prev.contributed[last.path].refs > 0
    /\ \E name \in DOMAIN index.definitions :
          \E d \in Range(prev.index.definitions[name]) : d.file = last.path
    /\ DOMAIN prev.index.definitions \ DOMAIN index.definitions # {}

\* C5: in every reachable state all_symbols holds exactly the names with at
\* least one definition, each once.
AllSymbolsExact ==
    /\ Range(index.all_symbols)
          = {n \in DOMAIN index.definitions : index.definitions[n] # << >>}
    /\ \A i, j \in 1..Len(index.all_symbols) :
          index.all_symbols[i] = index.all_symbols[j] => i = j

\* two names are listed, one of them defined by both files
AllSymbolsExactSeen ==
    /\ Len(index.all_symbols) >= 2
    /\ \E n \in DOMAIN index.definitions :
          {d.file : d \in Range(index.definitions[n])} = Paths

(***************************************************************************)
(* Properties of the server                                                *)
(***************************************************************************)
\* the task is inside a critical section of the index
InCritical(t) == tasks[t].pc \in {"remove", "analyze", "read", "collect", "scan"}

\* the task is reading the index: a lookup or the collection of diagnostics
Reading(t) == tasks[t].pc \in {"read", "collect"}

\* the task has removed its file from the index and not yet analyzed it again
HalfReanalyzed(t) == tasks[t].kind \in WriteKinds /\ tasks[t].pc = "analyze"

\* the task has analyzed some of the readable discovered files, not all
HalfScanned(t) ==
    /\ tasks[t].kind = "initialized"
    /\ tasks[t].pc = "scan"
    /\ \E path \in DOMAIN Disk \ tasks[t].todo : Disk[path] # << >>
    /\ \E path \in tasks[t].todo : Disk[path] # << >>

\* C6: under any interleaving of the handlers, a read or a write is inside
\* its critical section only as the holder of the index lock, the lock is not
\* held at the await of publish_diagnostics, and no read runs while a
\* reanalyze has removed its file and not yet analyzed it again.
LockHeldInCritical ==
    /\ \A t \in DOMAIN tasks : InCritical(t) => lock = t
    /\ \A t \in DOMAIN tasks : tasks[t].pc = "publish" => lock # t
    /\ \A r \in DOMAIN tasks, w \in DOMAIN tasks :
          Reading(r) => ~HalfReanalyzed(w)

\* a read waits for the lock while a reanalyze is between its two halves
LockHeldInCriticalSeen ==
    \E r \in DOMAIN tasks, w \in DOMAIN tasks :
        /\ tasks[r].kind \in ReadKinds
        /\ tasks[r].pc = "lock"
        /\ HalfReanalyzed(w)
        /\ tasks[w].path \notin DOMAIN index.files
        /\ lock = w

\* C7: no read runs while the workspace scan has analyzed only some of the
\* discovered files: the scan keeps the index lock from its first file to its
\* last.
ScanIsAtomic ==
    \A r \in DOMAIN tasks, s \in DOMAIN tasks :
        HalfScanned(s) => (lock = s /\ ~Reading(r))

\* a read waits for the lock while the scan is between two files
ScanIsAtomicSeen ==
    \E r \in DOMAIN tasks, s \in DOMAIN tasks :
        /\ tasks[r].kind \in ReadKinds
        /\ tasks[r].pc = "lock"
        /\ HalfScanned(s)
        /\ DOMAIN index.files # {}

\* C8: once a document is closed and no handler is in flight, the index holds
\* the on-disk text for it if it is a workspace file, and otherwise no
\* bundle, definition or reference owned by its path.
ClosedLeavesIndex ==
    tasks = EmptyMap =>
        \A path \in OpenPaths \ DOMAIN documents :
            IF path \in workspace_files
            THEN /\ path \in DOMAIN index.files
                 /\ index.files[path].source = Disk[path][1]
            ELSE /\ path \notin DOMAIN index.files
                 /\ OwnedBy(index.definitions, path) = EmptyMap
                 /\ OwnedBy(index.references, path) = EmptyMap

(***************************************************************************)
(* Properties of the parser                                                *)
(***************************************************************************)
\* the entries of an AST, those nested in choice, menu and if blocks included
RECURSIVE AllEntries(_)
AllEntries(entries) ==
    IF entries = << >> THEN {}
    ELSE {Head(entries)}
         \cup (IF Head(entries).tag \in {"Choice", "Menu", "If"}
               THEN AllEntries(Head(entries).entries) ELSE {})
         \cup AllEntries(Tail(entries))

\* the attributes of an AST
AllAttributes(entries) ==
    UNION {Range(e.attributes) :
             e \in {x \in AllEntries(entries) :
                      x.tag \in {"Config", "MenuConfig", "Choice", "Comment", "Menu"}}}

\* the well-formed lines of a file, each with the offset of its first word
RECURSIVE LinesAt(_, _)
LinesAt(lines, off) ==
    IF lines = << >> THEN {}
    ELSE {[line |-> Head(lines),
           start |-> off + (IF Head(lines).kind = "attr" THEN 1 ELSE 0)]}
         \cup LinesAt(Tail(lines), off + Len(Head(lines).text))

GoodLines(d) ==
    LinesAt(d.before, 0)
    \cup LinesAt(d.after, Len(LinesText(d.before)) + Len(d.bad))

\* what the line writes is in the AST: the entry of that name, or the
\* attribute of that tag, that starts where the line does
Present(l, entries) ==
    IF l.line.kind = "entry"
    THEN \E e \in AllEntries(entries) :
            e.tag = "Config" /\ e.name = l.line.key /\ e.span.start = l.start
    ELSE \E at \in AllAttributes(entries) :
            at.tag = l.line.key /\ at.span.start = l.start

\* the number of Error diagnostics
ErrorCount(diagnostics) ==
    Cardinality({i \in 1..Len(diagnostics) : diagnostics[i].severity = "Error"})

\* The files are well-formed but for the one line: without it, they parse
\* with no diagnostic and every line is in the AST
OtherLinesWellFormed ==
    With(parse(LinesText(doc.before \o doc.after),
               tokenize(LinesText(doc.before \o doc.after))), LAMBDA r :
        /\ r.diagnostics = << >>
        /\ \A l \in LinesAt(doc.before \o doc.after, 0) : Present(l, r.file.entries))

\* C9: a file in which exactly one statement line is malformed gets exactly
\* one Error diagnostic from parse.
OneErrorPerMalformedLine ==
    result # << >> => ErrorCount(result[1].diagnostics) = 1

\* C10: a single malformed line costs at most its own statement: the entry or
\* attribute of every other line of the file is in the AST.
MalformedLineCostsOneStatement ==
    result # << >> =>
        \A l \in GoodLines(doc) : Present(l, result[1].file.entries)

\* the entries of a list by name, a block by its variant
EntryNames(entries) ==
    [i \in 1..Len(entries) |->
        IF entries[i].tag \in {"Config", "MenuConfig"} THEN entries[i].name
        ELSE entries[i].tag]

\* C11: a block whose closing keyword is missing gets exactly one Error
\* diagnostic and keeps the entries parsed in it, and when the block stands in
\* an enclosing block that is closed, the enclosing block ends at its own
\* closing keyword: the entry after it is at the top level.
MissingTerminatorEndsBlock ==
    \A w \in {"", "menu", "if"}, k \in {"choice", "menu", "if"} :
        (input = BlockText(w, k) /\ result # << >>) =>
            /\ ErrorCount(result[1].diagnostics) = 1
            /\ \E blk \in AllEntries(result[1].file.entries) :
                  /\ blk.tag = BlockTag(k)
                  /\ blk.span.start = Len(BlockOpen(w))
                  /\ EntryNames(blk.entries) = <<"A", "B">>
            /\ w # "" => EntryNames(result[1].file.entries) = <<BlockTag(w), "C">>

\* the case the code handles: the block is not inside another block
MissingTerminatorAtTopLevel ==
    \A k \in {"choice", "menu", "if"} :
        (input = BlockText("", k) /\ result # << >>) =>
            /\ ErrorCount(result[1].diagnostics) = 1
            /\ EntryNames(result[1].file.entries) = <<BlockTag(k)>>
            /\ EntryNames(result[1].file.entries[1].entries) = <<"A", "B">>

\* the parser on the tokens of input, its cursor at token i
ParserAt(i) ==
    [source |-> input, tokens |-> tokenize(input), pos |-> i,
     diagnostics |-> << >>, panicked |-> FALSE]

\* Started at any token, skip_newlines does not move the cursor backward, an
\* iteration of the entry loop consumes a token, and an iteration of an
\* attribute loop consumes a token or ends the loop where it stands.
CursorMovesForward ==
    \A i \in 0..(Len(tokenize(input)) - 1) :
        With(skip_newlines(ParserAt(i)), LAMBDA q :
            /\ q.pos >= i
            /\ q.pos < Len(q.tokens)
            /\ peek(q) # "Eof" => parse_entry(q).p.pos > q.pos
            /\ \A r \in {config_attribute(q), choice_attribute(q),
                         comment_menu_attribute(q)} :
                  /\ r.p.pos <= Len(q.tokens)
                  /\ IF r.v = << >> THEN r.p.pos = q.pos ELSE r.p.pos > q.pos)

\* C12: for every text, parse returns an AST and a diagnostic list: no input
\* makes it abort, the cursor never moves backward and every iteration of the
\* entry loop and of the attribute loops consumes a token.
ParseAlwaysReturns ==
    /\ result # << >> => ~result[1].panicked
    /\ CursorMovesForward

\* C13: parsing a well-formed file that uses the constructs of the entry
\* grammar yields no Error diagnostic.
WellFormedHasNoError ==
    (input \in GrammarTexts /\ result # << >>) =>
        /\ ~result[1].panicked
        /\ ErrorCount(result[1].diagnostics) = 0

\* the sample is parsed: its entries at the top level, the menu with its
\* choice and if blocks, the attributes of the grammar
WellFormedHasNoErrorSeen ==
    /\ input = SampleText
    /\ result # << >>
    /\ EntryNames(result[1].file.entries) = <<"MainMenu", "AUDIT", "MODULES", "Menu">>
    /\ {"Choice", "If", "Source"} \subseteq
          {e.tag : e \in AllEntries(result[1].file.entries)}
    /\ {"Type", "Prompt", "Default", "DefType", "DependsOn", "Select", "Imply",
        "Range", "Help", "Modules", "Transitional"} \subseteq
          {a.tag : a \in AllAttributes(result[1].file.entries)}

(***************************************************************************)
(* Properties of analyze_file on one file                                  *)
(***************************************************************************)
\* the config and menuconfig entries of an AST, at any depth
ConfigEntries(entries) ==
    {e \in AllEntries(entries) : e.tag \in {"Config", "MenuConfig"}}

\* what the attributes of a config entry say of its type, prompt and help
TypesOf(e) ==
    {a.kind : a \in {x \in Range(e.attributes) : x.tag \in {"Type", "DefType"}}}

PromptsOf(e) ==
    {a.text : a \in {x \in Range(e.attributes) : x.tag = "Prompt"}}
    \cup {a.prompt[1].text :
            a \in {x \in Range(e.attributes) : x.tag = "Type" /\ x.prompt # << >>}}

HelpsOf(e) ==
    {a.text : a \in {x \in Range(e.attributes) : x.tag = "Help"}}

\* v is None when there is nothing to take it from, and else one of from
TakenFrom(v, from) == IF from = {} THEN v = << >> ELSE v # << >> /\ v[1] \in from

\* C14: after analyze, every config and menuconfig entry of the file, at any
\* depth, has exactly one definition under its name, of its kind, with the
\* type, prompt and help of its attributes, and there is no other definition.
EveryConfigDefinedOnce ==
    FilePath \in DOMAIN index.files =>
        /\ \A e \in ConfigEntries(index.files[FilePath].file.entries) :
              /\ get_definitions(index, e.name) # << >>
              /\ \E i \in 1..Len(get_definitions(index, e.name)) :
                    With(get_definitions(index, e.name), LAMBDA ds :
                        /\ ds[i].name_span = e.name_span
                        /\ \A j \in 1..Len(ds) : ds[j].name_span = e.name_span => j = i
                        /\ ds[i].name = e.name
                        /\ ds[i].kind = e.tag
                        /\ ds[i].file = FilePath
                        /\ TakenFrom(ds[i].type_kind, TypesOf(e))
                        /\ TakenFrom(ds[i].prompt, PromptsOf(e))
                        /\ TakenFrom(ds[i].help, HelpsOf(e)))
        /\ MapSize(index.definitions) =
              Cardinality(ConfigEntries(index.files[FilePath].file.entries))

\* the sample is analyzed: a config of the top level, a menuconfig, and the
\* configs inside the choice and the if block of the menu are defined
EveryConfigDefinedOnceSeen ==
    /\ input = SampleText
    /\ FilePath \in DOMAIN index.files
    /\ DOMAIN index.definitions = {"AUDIT", "MODULES", "FAST", "CR", "FOO"}
    /\ get_definitions(index, "AUDIT")[1].help = <<"Enable it.">>
    /\ get_definitions(index, "AUDIT")[1].prompt = <<"Au">>
    /\ get_definitions(index, "MODULES")[1].kind = "MenuConfig"
    /\ get_definitions(index, "FAST")[1].type_kind # << >>
    /\ get_definitions(index, "FOO")[1].type_kind = << >>

\* the reference kind of an attribute; the guard of a prompt is a dependency
AttrRefKind(tag) ==
    CASE tag = "Select" -> "Select"
      [] tag = "Imply" -> "Imply"
      [] tag \in {"Default", "DefType"} -> "Default"
      [] tag = "Range" -> "Range"
      [] tag = "VisibleIf" -> "VisibleIf"
      [] OTHER -> "DependsOn"

Inside(span, outer) == outer.start <= span.start /\ span.end <= outer.end

\* the references of the index, as a set
AllReferences ==
    UNION {Range(index.references[n]) : n \in DOMAIN index.references}

\* the kinds under which the index holds references to name
KindsOf(name) == {r.kind : r \in Range(get_references(index, name))}

\* C15: every reference carries the kind of the attribute whose text holds it,
\* the symbols of an `if` guard included, and the symbols of the condition of
\* an if block are tagged IfCondition; `select B if C` gives one reference to
\* B and one to C, both Select (likewise imply, default, range).
ReferencesTaggedByAttribute ==
    FilePath \in DOMAIN index.files =>
        /\ \A r \in AllReferences :
              /\ r.file = FilePath
              /\ \/ \E a \in AllAttributes(index.files[FilePath].file.entries) :
                        Inside(r.span, a.span) /\ r.kind = AttrRefKind(a.tag)
                 \/ \E e \in AllEntries(index.files[FilePath].file.entries) :
                        /\ e.tag = "If"
                        /\ Inside(r.span, expr_span(e.condition))
                        /\ r.kind = "IfCondition"
        /\ \A k \in {<<"select", "Select">>, <<"imply", "Imply">>,
                     <<"default", "Default">>} :
              input = "config A\n\tbool\n\t" \o k[1] \o " B if C\n" =>
                  /\ DOMAIN index.references = {"B", "C"}
                  /\ MapSize(index.references) = 2
                  /\ KindsOf("B") = {k[2]} /\ KindsOf("C") = {k[2]}
        /\ input = "config A\n\tint\n\trange B C if D\n" =>
              /\ DOMAIN index.references = {"B", "C", "D"}
              /\ MapSize(index.references) = 3
              /\ \A n \in {"B", "C", "D"} : KindsOf(n) = {"Range"}
        /\ input = "if X\n\nconfig A\n\tbool\n\nendif\n" =>
              /\ MapSize(index.references) = 1
              /\ KindsOf("X") = {"IfCondition"}

\* `select B if C` is analyzed: B and C are both referenced as Select
ReferencesTaggedByAttributeSeen ==
    /\ input = "config A\n\tbool\n\tselect B if C\n"
    /\ FilePath \in DOMAIN index.files
    /\ Len(get_references(index, "C")) = 1
    /\ get_references(index, "C")[1].kind = "Select"
    /\ get_references(index, "B")[1].kind = "Select"

\* C16: after analyze, no reference is named y, n, m or the empty string.
NoLiteralOrEmptyReference ==
    FilePath \in DOMAIN index.files =>
        \A r \in AllReferences : ~is_tristate_literal(r.name) /\ r.name # ""

(***************************************************************************)
(* Properties of the diagnostics of one file                               *)
(***************************************************************************)
\* the places of the references mapping: a name and a position in its list
RefSlots ==
    {s \in (DOMAIN index.references) \X (1..MapSize(index.references)) :
        s[2] <= Len(index.references[s[1]])}

\* the references of path whose name has no definition and is not on the
\* allow-list; macros says whether a macro invocation counts as one
UndefinedRefs(path, macros) ==
    {index.references[s[1]][s[2]] :
        s \in {x \in RefSlots :
                 With(index.references[x[1]][x[2]], LAMBDA r :
                     /\ r.file = path
                     /\ get_definitions(index, r.name) = << >>
                     /\ ~is_well_known_symbol(r.name)
                     /\ (macros \/ ~starts_with(r.name, "$(")))}}

\* the diagnostics that collect appends after those of the parser
WarningsOf(path, order) ==
    SubSeq(collect(index, path, order), Len(index.files[path].diagnostics) + 1,
           Len(collect(index, path, order)))

\* the undefined-symbol warning of a reference
IsWarningOf(d, r, fa) ==
    /\ d.severity = "WARNING"
    /\ d.message = "symbol " \o r.name \o " is not defined in any open file"
    /\ d.range = [start |-> line_col(fa.line_index, r.span.start),
                  end |-> line_col(fa.line_index, r.span.end)]

\* one warning per reference of refs and no other, whatever the order of the map
OneWarningPerReference(refs) ==
    \A order \in KeyOrders(index.references) :
        With(WarningsOf(FilePath, order), LAMBDA w :
            /\ Len(w) = Cardinality(refs)
            /\ \A r \in refs :
                  Cardinality({i \in 1..Len(w) :
                                  IsWarningOf(w[i], r, index.files[FilePath])}) = 1)

\* C17 as stated: one Warning for each reference of the file whose name has no
\* definition and is not on the allow-list, and no other.
WarningPerUndefinedReference ==
    FilePath \in DOMAIN index.files => OneWarningPerReference(UndefinedRefs(FilePath, TRUE))

\* C17, amended: one Warning, ranging over the reference's token, for each
\* reference of the file whose name has no definition, is not on the
\* allow-list and is not a macro invocation `$(..)`, and no other warning
\* (a reference with an empty name ranges over the token met in its place);
\* `config A` depending on B gives one warning naming B at line 2, columns
\* 12 to 13, and none once `config B` is in the file.
WarningPerUndefinedSymbol ==
    FilePath \in DOMAIN index.files =>
        /\ OneWarningPerReference(UndefinedRefs(FilePath, FALSE))
        /\ \A r \in UndefinedRefs(FilePath, FALSE) :
              r.name # "" => SubSeq(input, r.span.start + 1, r.span.end) = r.name
        /\ input = "config A\n\tbool \"A\"\n\tdepends on B\n" =>
              /\ Len(WarningsOf(FilePath, <<"B">>)) = 1
              /\ WarningsOf(FilePath, <<"B">>)[1].range = [start |-> <<2, 12>>, end |-> <<2, 13>>]
              /\ WarningsOf(FilePath, <<"B">>)[1].message
                    = "symbol B is not defined in any open file"
        /\ input = "config A\n\tbool \"A\"\n\tdepends on B\nconfig B\n\tbool \"B\"\n" =>
              /\ Len(get_definitions(index, "B")) = 1
              /\ Len(get_references(index, "B")) = 1
              /\ get_references(index, "B")[1].kind = "DependsOn"
              /\ WarningsOf(FilePath, <<"B">>) = << >>

\* the file with `config A` alone is analyzed and its one warning names B
WarningPerUndefinedSymbolSeen ==
    /\ input = "config A\n\tbool \"A\"\n\tdepends on B\n"
    /\ FilePath \in DOMAIN index.files
    /\ get_definitions(index, "B") = << >>
    /\ Len(collect(index, FilePath, <<"B">>)) = 1
    /\ collect(index, FilePath, <<"B">>)[1].severity = "WARNING"

(***************************************************************************)
(* Properties of tokenize                                                  *)
(***************************************************************************)
\* C18: tokenize returns, for any text, a finite token sequence whose last
\* token and no other is Eof; every token lies inside the text and every
\* token before Eof is at least one byte long and starts no earlier than the
\* end of the one before it.
TokensEndWithEof ==
    lexed # << >> =>
        With(lexed[1], LAMBDA t :
            /\ Len(t) >= 1 /\ Len(t) <= Len(input) + 1
            /\ t[Len(t)].kind = "Eof"
            /\ \A i \in 1..(Len(t) - 1) :
                  /\ t[i].kind \notin {"Eof", ""}
                  /\ t[i].span.start < t[i].span.end
                  /\ t[i].span.end <= t[i + 1].span.start
            /\ \A i \in 1..Len(t) : 0 <= t[i].span.start /\ t[i].span.end <= Len(input))

\* a byte of no token and then an unterminated string are lexed
TokensEndWithEofSeen ==
    /\ input = "@\"a"
    /\ lexed # << >>
    /\ lexed[1] = <<Tok("StringLit", "a", 1, 3), Tok("Eof", "", 3, 3)>>

\* the bytes of the spans of tokens, concatenated in order
RECURSIVE SpanBytes(_, _)
SpanBytes(text, toks) ==
    IF toks = << >> THEN ""
    ELSE Slice(text, Head(toks).span.start, Head(toks).span.end)
         \o SpanBytes(text, Tail(toks))

\* C19 as stated: the bytes of the spans of the tokens, concatenated in order,
\* are the text.
SpansRecoverText ==
    lexed # << >> => SpanBytes(input, lexed[1]) = input

\* the byte at offset k starts no token
StartsNoToken(text, k) ==
    /\ ByteAt(text, k) \notin {"\n", "#", "\"", "'", "(", ")", "!", "=", "<", ">"}
    /\ ~is_ident_start(ByteAt(text, k))
    /\ ~(ByteAt(text, k) = "$" /\ ByteAt(text, k + 1) = "(")
    /\ ~(ByteAt(text, k) = "&" /\ ByteAt(text, k + 1) = "&")
    /\ ~(ByteAt(text, k) = "|" /\ ByteAt(text, k + 1) = "|")

\* C19, amended: the spans of the tokens are in order and do not overlap, the
\* last ends where the text ends, and a byte no span covers is a space, a tab,
\* a byte that starts no token, or the newline after a backslash; the spans'
\* bytes and these gaps, in order, are the text.
SpansAndGapsRecoverText ==
    lexed # << >> =>
        With(lexed[1], LAMBDA t :
            /\ t[Len(t)].span.end = Len(input)
            /\ \A i \in 1..Len(t) :
                  With(IF i = 1 THEN 0 ELSE t[i - 1].span.end, LAMBDA from :
                      /\ from <= t[i].span.start
                      /\ t[i].span.start <= t[i].span.end
                      /\ \A k \in from..(t[i].span.start - 1) :
                            \/ StartsNoToken(input, k)
                            \/ /\ ByteAt(input, k) = "\n"
                               /\ k > from
                               /\ ByteAt(input, k - 1) = "\\"))

\* the blanks between the tokens of three lines are in no span
SpansAndGapsRecoverTextSeen ==
    /\ input = "config A # c\n\tbool # d\n# e"
    /\ lexed # << >>
    /\ SpanBytes(input, lexed[1]) = "configA# c\nbool# d\n# e"

(***************************************************************************)
(* Properties of the help text                                             *)
(***************************************************************************)
\* the number of spaces and tabs that open a line
RECURSIVE IndentOf(_)
IndentOf(l) ==
    IF l # "" /\ SubSeq(l, 1, 1) \in {" ", "\t"}
    THEN 1 + IndentOf(SubSeq(l, 2, Len(l))) ELSE 0

IsBlank(l) == IndentOf(l) = Len(l)

\* the indent of the first line of body that is not blank, 0 when all are
BaseIndent(body) ==
    IF \A i \in 1..Len(body) : IsBlank(body[i]) THEN 0
    ELSE IndentOf(body[CHOOSE i \in 1..Len(body) :
                          /\ ~IsBlank(body[i])
                          /\ \A j \in 1..(i - 1) : IsBlank(body[j])])

\* the number of lines before the first that is not blank and is indented less
Captured(body) ==
    CHOOSE n \in 0..Len(body) :
        /\ \A i \in 1..n : IsBlank(body[i]) \/ IndentOf(body[i]) >= BaseIndent(body)
        /\ n < Len(body) =>
              ~IsBlank(body[n + 1]) /\ IndentOf(body[n + 1]) < BaseIndent(body)

\* the first n lines, each without the first bi bytes, joined with newlines
RECURSIVE JoinWithout(_, _, _)
JoinWithout(body, n, bi) ==
    IF n = 0 THEN ""
    ELSE (IF n = 1 THEN "" ELSE JoinWithout(body, n - 1, bi) \o "\n")
         \o (IF IsBlank(body[n]) THEN "" ELSE SubSeq(body[n], bi + 1, Len(body[n])))

\* what the lines after the `help` line are to give
ExpectedHelp(body) ==
    trim_end(JoinWithout(body, Captured(body), BaseIndent(body)))

\* the text of the help attribute of the first entry of the parsed file
ParsedHelp ==
    HelpsOf(result[1].file.entries[1])

\* C20: the help text is made of the lines after the `help` line: the indent
\* of the first that is not blank is the base indent, lines are taken while
\* blank or indented at least as much, each loses exactly the base indent,
\* they are joined with newlines and trailing whitespace is trimmed.
HelpTextCaptured ==
    result # << >> =>
        /\ \A b \in HelpBodies(MaxHelpLines), e \in {"", "\n"} :
              input = HelpText(b, e) => ParsedHelp = {ExpectedHelp(b)}
        /\ input = "config A\n\tbool\n\thelp\n\t  one\n\t    two\n\t  three\nconfig B\n\tbool\n" =>
              ParsedHelp = {"one\n  two\nthree"}

\* the same, for the texts in which a newline ends the `help` line
HelpTextCapturedAfterNewline ==
    result # << >> =>
        /\ \A b \in HelpBodies(MaxHelpLines), e \in {"", "\n"} :
              input = HelpText(b, e) /\ input # HelpText(<< >>, "") =>
                  ParsedHelp = {ExpectedHelp(b)}
        /\ input = "config A\n\tbool\n\thelp\n\t  one\n\t    two\n\t  three\nconfig B\n\tbool\n" =>
              ParsedHelp = {"one\n  two\nthree"}

(***************************************************************************)
(* Properties of the open documents                                        *)
(***************************************************************************)
\* C21: with no handler in flight, the index holds for every open document
\* the text the editor sent last, and every definition site of that text is
\* in the definitions mapping exactly once.
OpenDocumentsIndexedOnce ==
    tasks = EmptyMap =>
        \A path \in DOMAIN documents :
            /\ path \in DOMAIN index.files
            /\ index.files[path].source = documents[path]
            /\ \A e \in ConfigEntries(index.files[path].file.entries) :
                  With(get_definitions(index, e.name), LAMBDA ds :
                      Cardinality({i \in 1..Len(ds) :
                                      ds[i].file = path /\ ds[i].name_span = e.name_span}) = 1)

\* C22: whatever the help text holds, the parser resumes at the entry on the
\* line after it: the file has the entries A and B and no other, the help of
\* A is the line of help text, B has its type, and nothing is diagnosed.
HelpBlockResumes ==
    result # << >> =>
        \A h \in HelpWords :
            input = HelpThenEntry(h) =>
                /\ EntryNames(result[1].file.entries) = <<"A", "B">>
                /\ ParsedHelp = {h}
                /\ TypesOf(result[1].file.entries[2]) = {"Bool"}
                /\ result[1].diagnostics = << >>

\* C23: with no handler in flight, the diagnostics the client received last
\* for an open document are those collected from the index as it is now.
LastPublishedIsCurrent ==
    tasks = EmptyMap =>
        \A path \in DOMAIN documents :
            /\ path \in DOMAIN published
            /\ \E order \in KeyOrders(index.references) :
                  published[path] = collect(index, path, order)

\* a task that waits for a mutex another task holds
Blocked(t) ==
    \/ tasks[t].pc \in IndexLockPcs /\ lock > 0
    \/ tasks[t].pc \in FilesLockPcs /\ ws_lock > 0

\* The order of the locks: a task that holds the index mutex is not at a
\* point where it asks for the workspace_files mutex, only initialized holds
\* both, and while a handler is in flight one of them can take a step.
LockOrderConsistent ==
    /\ lock > 0 => lock \in DOMAIN tasks /\ tasks[lock].pc \notin FilesLockPcs
    /\ ws_lock > 0 => ws_lock \in DOMAIN tasks /\ tasks[ws_lock].kind = "initialized"
    /\ tasks # EmptyMap => \E t \in DOMAIN tasks : ~Blocked(t)

\* C24: the locks are taken in a consistent order and no interleaving of
\* handlers deadlocks, so a handler that asks for the index mutex stays at
\* its lock() until it holds the mutex: it never ends without the guard.
HandlersObtainIndexLock ==
    [][/\ LockOrderConsistent
       /\ \A t \in DOMAIN tasks :
             tasks[t].pc \in IndexLockPcs =>
                 /\ t \in DOMAIN tasks'
                 /\ tasks'[t].pc = tasks[t].pc \/ lock' = t]_vars

\* the text is one token of the kind the keyword table gives its spelling
OneKeywordToken(s) ==
    /\ Len(lexed[1]) = 2
    /\ lexed[1][1].kind = keyword(s)
    /\ lexed[1][1].kind # "Ident"
    /\ lexed[1][1].span = SpanNew(0, Len(s))

\* C27: every spelling of the keyword table tokenizes to its keyword token
\* and not to an identifier, the alias ---help--- to the Help token of help.
KeywordsTokenize ==
    lexed # << >> =>
        /\ \A s \in KeywordSpellings : input = s => OneKeywordToken(s)
        /\ input = "---help---" => lexed[1][1].kind = "Help"

\* The same for the spellings that start with a letter: holds.
WordKeywordsTokenize ==
    lexed # << >> =>
        \A s \in KeywordSpellings \ {"---help---"} : input = s => OneKeywordToken(s)

(***************************************************************************)
(* Properties of the expression grammar                                    *)
(***************************************************************************)
\* the Expr constructor an operator stands for
OpTag(op) ==
    CASE op = "||" -> "Or"
      [] op = "&&" -> "And"
      [] op = "=" -> "Eq"
      [] op = "!=" -> "NotEq"
      [] op = "<" -> "Less"
      [] op = "<=" -> "LessEq"
      [] op = ">" -> "Greater"
      [] OTHER -> "GreaterEq"

\* how tightly an operator binds: || loosest, then &&, then the comparisons
Level(op) == IF op = "||" THEN 1 ELSE IF op = "&&" THEN 2 ELSE 3

\* the written form of a constructor with one and with two operands
Un(tag, x) == tag \o "(" \o x \o ")"

Bin(tag, x, y) == tag \o "(" \o x \o ", " \o y \o ")"

\* an expression without its spans, written out: a name, a quoted string, or
\* the constructor with its operands
RECURSIVE Shape(_)
Shape(e) ==
    CASE e.tag = "Symbol" -> e.name
      [] e.tag = "StringLit" -> "\"" \o e.value \o "\""
      [] e.tag \in {"Not", "Paren"} -> Un(e.tag, Shape(e.e))
      [] OTHER -> Bin(e.tag, Shape(e.a), Shape(e.b))

\* the tree of `A op1 B op2 C` under the precedence grammar; of two
\* comparisons in a row only the first belongs to the expression
ExpectedChain(op1, op2) ==
    IF Level(op1) = 3 /\ Level(op2) = 3 THEN Bin(OpTag(op1), "A", "B")
    ELSE IF Level(op1) >= Level(op2)
         THEN Bin(OpTag(op2), Bin(OpTag(op1), "A", "B"), "C")
    ELSE Bin(OpTag(op1), "A", Bin(OpTag(op2), "B", "C"))

\* the expression of the dependency of config X, without its spans
ParsedExpr == Shape(result[1].file.entries[1].attributes[1].expr)

\* the text was parsed to config X with one dependency
ParsedDependency ==
    /\ result # << >>
    /\ ~result[1].panicked
    /\ Len(result[1].file.entries) = 1
    /\ Len(result[1].file.entries[1].attributes) = 1
    /\ result[1].file.entries[1].attributes[1].tag = "DependsOn"

\* C26: parse_expr builds the tree of the precedence grammar: || binds
\* loosest, && tighter, a comparison tightest, each of || and && associates
\* to the left, the operands of a comparison are unary or primary
\* expressions, and the operator after a comparison is never a second
\* comparison of the same expression: it is left in the token stream.
ExprFollowsPrecedence ==
    (result # << >> /\ \E e \in ExprWords : input = ExprText(e)) =>
        /\ ParsedDependency
        /\ \A op1 \in ExprOps, op2 \in ExprOps :
              input = ExprText(Chain(op1, op2)) =>
                  /\ ParsedExpr = ExpectedChain(op1, op2)
                  /\ IF Level(op1) = 3 /\ Level(op2) = 3
                     THEN /\ Len(result[1].diagnostics) = 1
                          /\ result[1].diagnostics[1].message = "expected end of line"
                          /\ result[1].diagnostics[1].span.start
                                = Len("config X\n\tdepends on A " \o op1 \o " B ")
                     ELSE result[1].diagnostics = << >>
        /\ input = ExprText("!A = B") => ParsedExpr = "Eq(Not(A), B)"
        /\ input = ExprText("!!A") => ParsedExpr = "Not(Not(A))"
        /\ input = ExprText("(A || B) && C")
              => ParsedExpr = "And(Paren(Or(A, B)), C)"
        /\ input = ExprText("A && (B || C)")
              => ParsedExpr = "And(A, Paren(Or(B, C)))"
        /\ input = ExprText("!(A < B)")
              => ParsedExpr = "Not(Paren(Less(A, B)))"
        /\ input = ExprText("A || B && C || D")
              => ParsedExpr = "Or(Or(A, And(B, C)), D)"
        /\ input = ExprText("A < B && C < D")
              => ParsedExpr = "And(Less(A, B), Less(C, D))"
        /\ input = ExprText("A && B = \"s\"")
              => ParsedExpr = "And(A, Eq(B, \"s\"))"

\* `A || B && C` was parsed to Or(A, And(B, C))
ExprFollowsPrecedenceSeen ==
    /\ input = ExprText("A || B && C")
    /\ ParsedDependency
    /\ ParsedExpr = "Or(A, And(B, C))"

\* the kinds and payloads of a token sequence, without the spans
KindsOfTokens(toks) == [i \in 1..Len(toks) |-> <<toks[i].kind, toks[i].text>>]

\* C28: a backslash immediately followed by a newline between two tokens is
\* invisible to the token stream: the tokens of `X \<newline> Y` have the
\* kinds and payloads of those of `X Y`, none of them is a Newline, and a
\* statement continued over several lines is parsed as one statement.
ContinuationInvisible ==
    /\ lexed # << >> =>
          \A x \in ContWords, gap \in ContGaps, y \in ContWords :
              input = x \o gap \o y =>
                  /\ KindsOfTokens(lexed[1]) = KindsOfTokens(tokenize(x \o " " \o y))
                  /\ Len(lexed[1]) = 3
                  /\ \A i \in 1..Len(lexed[1]) : lexed[1][i].kind # "Newline"
    /\ (result # << >> /\ input = ContStatement) =>
          /\ ParsedDependency
          /\ ParsedExpr = "Or(And(B, C), D)"
          /\ result[1].diagnostics = << >>

\* an identifier and a keyword on two physical lines joined by a continuation
ContinuationInvisibleSeen ==
    /\ input = "A \\\n\tif"
    /\ lexed # << >>
    /\ KindsOfTokens(lexed[1]) = <<<<"Ident", "A">>, <<"If", "">>, <<"Eof", "">>>>

\* the statement on three physical lines was parsed
ContinuationParsedSeen ==
    /\ input = ContStatement
    /\ result # << >>
    /\ ParsedExpr = "Or(And(B, C), D)"

\* the first attribute of the first entry
FirstAttribute == result[1].file.entries[1].attributes[1]

\* C29: each of on, modules, optional, transitional, bool, tristate, hex and
\* int is a symbol name where a name is expected: after config and
\* menuconfig, after select and imply, and as a term of an expression; the
\* name is the spelling of the keyword and nothing is diagnosed.
SymbolKeywordsAreNames ==
    result # << >> =>
        \A kw \in SymbolKeywords :
            /\ (\E form \in NameForms : input = NamedText(form, kw)) =>
                  /\ ~result[1].panicked
                  /\ result[1].diagnostics = << >>
                  /\ Len(result[1].file.entries) = 1
                  /\ Len(result[1].file.entries[1].attributes) = 1
            /\ input = NamedText("config", kw) =>
                  /\ result[1].file.entries[1].tag = "Config"
                  /\ result[1].file.entries[1].name = kw
                  /\ Slice(input, result[1].file.entries[1].name_span.start,
                           result[1].file.entries[1].name_span.end) = kw
                  /\ FirstAttribute.tag = "Type"
            /\ input = NamedText("menuconfig", kw) =>
                  /\ result[1].file.entries[1].tag = "MenuConfig"
                  /\ result[1].file.entries[1].name = kw
                  /\ FirstAttribute.tag = "Type"
            /\ input = NamedText("select", kw) =>
                  /\ FirstAttribute.tag = "Select"
                  /\ FirstAttribute.symbol = kw
                  /\ Slice(input, FirstAttribute.symbol_span.start,
                           FirstAttribute.symbol_span.end) = kw
                  /\ FirstAttribute.condition = << >>
            /\ input = NamedText("imply", kw) =>
                  /\ FirstAttribute.tag = "Imply"
                  /\ FirstAttribute.symbol = kw
                  /\ Len(FirstAttribute.condition) = 1
                  /\ Shape(FirstAttribute.condition[1]) = kw
            /\ input = NamedText("depends", kw) =>
                  /\ FirstAttribute.tag = "DependsOn"
                  /\ Shape(FirstAttribute.expr)
                        = "And(Not(" \o kw \o "), Paren(Eq(" \o kw \o ", y)))"
            /\ input = NamedText("default", kw) =>
                  /\ FirstAttribute.tag = "Default"
                  /\ Shape(FirstAttribute.value) = kw
                  /\ Len(FirstAttribute.condition) = 1
                  /\ Shape(FirstAttribute.condition[1]) = "Or(A, " \o kw \o ")"

\* `imply int if int` was parsed to the symbol int and the condition int
SymbolKeywordsAreNamesSeen ==
    /\ result # << >>
    /\ input = NamedText("imply", "int")
    /\ FirstAttribute.tag = "Imply"
    /\ FirstAttribute.symbol = "int"
    /\ Shape(FirstAttribute.condition[1]) = "int"

(***************************************************************************)
(* Properties of the position queries                                      *)
(***************************************************************************)
\* C25: for every caret of the analyzed text, a column past the end of its
\* line or of the text included, the offset completion converts it to lies
\* within [0, text length] and complete computes its answer without a panic.
CompletionStaysInside ==
    \A i \in 1..Len(reply) :
        reply[i].query = "complete" =>
            /\ reply[i].offset \in 0..Len(input)
            /\ ~reply[i].answer.panicked

\* the offsets that follow a newline byte of the text
AfterNewlines(text) == {j + 1 : j \in {k \in 0..(Len(text) - 1) : ByteAt(text, k) = "\n"}}

\* C30: the recorded line starts are 0 and the offset after each newline
\* byte, strictly increasing; line_col(o) of an offset o in [0, text length]
\* is the index of the largest line start that is <= o with o minus that
\* line start, and offset of that pair is o again.
PositionRoundTrip ==
    FilePath \in DOMAIN index.files =>
        With(index.files[FilePath].line_index.line_starts, LAMBDA starts :
            /\ Range(starts) = {0} \cup AfterNewlines(input)
            /\ \A i \in 1..(Len(starts) - 1) : starts[i] < starts[i + 1]
            /\ \A i \in 1..Len(reply) :
                  reply[i].query = "line_col" =>
                      /\ reply[i].line + 1 \in 1..Len(starts)
                      /\ starts[reply[i].line + 1] <= reply[i].offset
                      /\ \A k \in 1..Len(starts) :
                            starts[k] <= reply[i].offset => k <= reply[i].line + 1
                      /\ reply[i].col = reply[i].offset - starts[reply[i].line + 1]
                      /\ reply[i].answer = reply[i].offset)

\* an offset on the third line of a text, past the start of that line
PositionRoundTripSeen ==
    /\ input = "\na\na"
    /\ reply # << >>
    /\ reply[1].query = "line_col"
    /\ reply[1].offset = 4
    /\ reply[1].line = 2
    /\ reply[1].col = 1
    /\ reply[1].answer = 4
====
